---------------------------- MODULE Spec2Model ----------------------------
(***************************************************************************)
(* Model of the layout utilities of MobileUIGenerator:                     *)
(*   src/unnamed/part_001  (layoutUtils.js: ensureLayoutShape,             *)
(*   lookupByPath, setNodeByPath, deleteNodeByPath,                        *)
(*   ensurePositionAndSizeRecursive).                                      *)
(*                                                                         *)
(* JavaScript objects have identity, and the path utilities are all about  *)
(* which object a write lands in, so the model keeps a heap: a sequence of *)
(* objects, the address of an object being its index.  An array or a props *)
(* object is held inline in the object that owns it (in this code an array *)
(* is only ever reached through its owner), so a reference to an array is  *)
(* the pair (owner address, field).                                        *)
(***************************************************************************)
EXTENDS Integers, Sequences, FiniteSets, TLC

(***************************************************************************)
(* Bounds of the model.                                                    *)
(***************************************************************************)
\* number of calls (setNodeByPath, deleteNodeByPath,
\* ensurePositionAndSizeRecursive) in one behaviour
MaxOps == 2
\* paths have 0..MaxPathLen elements
MaxPathLen == 4
\* path elements are 0..MaxIdx
MaxIdx == 1
\* number of calls of the normalizers in one behaviour
MaxCalls == 2

(***************************************************************************)
(* Leaf values.  A JavaScript value is modelled by its type tag, its       *)
(* number (numbers; 1 for true) and its characters (strings, one character *)
(* per element).                                                           *)
(***************************************************************************)
Undefined == [t |-> "undefined", n |-> 0, s |-> <<>>]
Null == [t |-> "null", n |-> 0, s |-> <<>>]
NaN == [t |-> "NaN", n |-> 0, s |-> <<>>]
True == [t |-> "boolean", n |-> 1, s |-> <<>>]
Num(k) == [t |-> "number", n |-> k, s |-> <<>>]
Str(cs) == [t |-> "string", n |-> 0, s |-> cs]

\* typeof v === "number": NaN is a number too
IsNumber(v) == v.t \in {"number", "NaN"}

\* the truthiness of a leaf value
Truthy(v) ==
    CASE v.t \in {"number", "boolean"} -> v.n # 0
      [] v.t = "string" -> v.s # <<>>
      [] OTHER -> FALSE

(***************************************************************************)
(* Collections: a key that may hold an array.  k is "undefined" (the key   *)
(* is absent), "array", or "object" (present, truthy, but not an array).   *)
(* e holds the elements: addresses in the heap, values in a value tree.    *)
(***************************************************************************)
NoList == [k |-> "undefined", e |-> <<>>]
Arr(es) == [k |-> "array", e |-> es]
NotArray == [k |-> "object", e |-> <<>>]

\* the address that stands for null / undefined
NullRef == 0

\* props: present is FALSE when the object has no props key at all
NoProps ==
    [present |-> FALSE, x |-> Undefined, y |-> Undefined, width |-> Undefined,
     height |-> Undefined, text |-> Undefined, secure |-> Undefined,
     items |-> NoList, children |-> NoList, fields |-> NoList, buttons |-> NoList,
     title |-> Undefined, subtitle |-> Undefined, columns |-> Undefined,
     label |-> Undefined, color |-> Undefined, bg |-> Undefined,
     variant |-> Undefined]
EmptyProps == [NoProps EXCEPT !.present = TRUE]
Props(x, y, w, h, items, children) ==
    [EmptyProps EXCEPT !.x = x, !.y = y, !.width = w, !.height = h,
                       !.items = items, !.children = children]

(***************************************************************************)
(* Objects of a layout: the document, a page, a section, a node.  One      *)
(* record shape serves all four; the keys an object does not have are      *)
(* Undefined / NoList / NoProps.  A page's and a section's name is in id.  *)
(***************************************************************************)
NoObject ==
    [kind |-> "none", id |-> Undefined, type |-> Undefined, pages |-> NoList,
     sections |-> NoList, components |-> NoList, children |-> NoList,
     props |-> NoProps, title |-> Undefined, layout_type |-> Undefined]
Doc(pages) == [NoObject EXCEPT !.kind = "doc", !.pages = pages]
Page(name, sections) ==
    [NoObject EXCEPT !.kind = "page", !.id = name, !.sections = sections]
Section(name, components) ==
    [NoObject EXCEPT !.kind = "section", !.id = name, !.components = components]
Node(id, type, props, children) ==
    [NoObject EXCEPT !.kind = "node", !.id = id, !.type = type, !.props = props,
                     !.children = children]

(***************************************************************************)
(* The value of an object graph: the tree read from address a, with every  *)
(* address replaced by the value of the object it points to.  Two          *)
(* documents are structurally equal when their values are equal.           *)
(***************************************************************************)
RECURSIVE ValueOf(_, _)
ValueOf(h, a) ==
    LET L(l) == IF l.e = <<>> THEN l
                ELSE [k |-> l.k, e |-> [i \in 1..Len(l.e) |-> ValueOf(h, l.e[i])]]
    IN  [h[a] EXCEPT !.pages = L(@), !.sections = L(@), !.components = L(@),
                     !.children = L(@), !.props.items = L(@), !.props.children = L(@),
                     !.props.fields = L(@), !.props.buttons = L(@)]

\* the objects directly under the object (or value) o, in the order of its keys
KidsOf(o) ==
    o.pages.e \o o.sections.e \o o.components.e \o o.children.e
        \o o.props.items.e \o o.props.children.e \o o.props.fields.e
        \o o.props.buttons.e

\* the addresses of the objects reachable from address a (a included)
RECURSIVE Reach(_, _)
Reach(h, a) ==
    {a} \cup UNION {Reach(h, KidsOf(h[a])[i]) : i \in 1..Len(KidsOf(h[a]))}

(***************************************************************************)
(* JSON.parse(JSON.stringify(x)), part_001:73 and :83.                     *)
(* JSON.stringify writes the tree under x: every object reached is written *)
(* out in full (sharing is lost), a NaN is written as null.  JSON.parse    *)
(* builds new objects for the whole tree.                                  *)
(***************************************************************************)
JSONleaf(v) == IF v.t = "NaN" THEN Null ELSE v

RECURSIVE JSONstringify(_, _)
JSONstringify(h, a) ==
    LET L(l) == IF l.e = <<>> THEN l
                ELSE [k |-> l.k, e |-> [i \in 1..Len(l.e) |-> JSONstringify(h, l.e[i])]]
    IN  [h[a] EXCEPT !.pages = L(@), !.sections = L(@), !.components = L(@),
                     !.children = L(@), !.props.items = L(@), !.props.children = L(@),
                     !.props.fields = L(@), !.props.buttons = L(@),
                     !.props.x = JSONleaf(@), !.props.y = JSONleaf(@),
                     !.props.width = JSONleaf(@), !.props.height = JSONleaf(@)]

\* the number of objects in the tree v
RECURSIVE TreeSize(_)
RECURSIVE SizeSum(_, _)
SizeSum(vs, n) == IF n = 0 THEN 0 ELSE SizeSum(vs, n - 1) + TreeSize(vs[n])
TreeSize(v) == 1 + SizeSum(KidsOf(v), Len(KidsOf(v)))

\* the new objects JSON.parse builds for the tree v, the first of them (the
\* root) at address base + 1 and each subtree in the addresses that follow
RECURSIVE ParseTree(_, _)
ParseTree(v, base) ==
    LET kids == KidsOf(v)
        at(i) == base + 2 + SizeSum(kids, i - 1)
        n1 == Len(v.pages.e)
        n2 == n1 + Len(v.sections.e)
        n3 == n2 + Len(v.components.e)
        n4 == n3 + Len(v.children.e)
        n5 == n4 + Len(v.props.items.e)
        n6 == n5 + Len(v.props.children.e)
        n7 == n6 + Len(v.props.fields.e)
        o == [v EXCEPT
                !.pages.e = [i \in 1..Len(@) |-> at(i)],
                !.sections.e = [i \in 1..Len(@) |-> at(n1 + i)],
                !.components.e = [i \in 1..Len(@) |-> at(n2 + i)],
                !.children.e = [i \in 1..Len(@) |-> at(n3 + i)],
                !.props.items.e = [i \in 1..Len(@) |-> at(n4 + i)],
                !.props.children.e = [i \in 1..Len(@) |-> at(n5 + i)],
                !.props.fields.e = [i \in 1..Len(@) |-> at(n6 + i)],
                !.props.buttons.e = [i \in 1..Len(@) |-> at(n7 + i)]]
        RECURSIVE Below(_)
        Below(i) == IF i = 0 THEN <<>> ELSE Below(i - 1) \o ParseTree(kids[i], at(i) - 1)
    IN  <<o>> \o Below(Len(kids))

\* JSON.parse of the tree v: the heap with the new objects, and the address of the root
JSONparse(h, v) == [h |-> h \o ParseTree(v, Len(h)), a |-> Len(h) + 1]

(***************************************************************************)
(* Arrays.  JavaScript indexes from 0; an index outside the array, or an   *)
(* index into something that is no array, reads undefined.                 *)
(***************************************************************************)
ArrayGet(l, idx) ==
    IF l.k = "array" /\ idx \in 0..(Len(l.e) - 1) THEN l.e[idx + 1] ELSE NullRef

\* a reference to an array: the object that owns it and the field it is in
NoRef == [owner |-> NullRef, field |-> "none"]
Ref(owner, field) == [owner |-> owner, field |-> field]

\* the collection a reference points to
ListAt(h, ref) ==
    CASE ref.field = "components" -> h[ref.owner].components
      [] ref.field = "items" -> h[ref.owner].props.items
      [] ref.field = "children" -> h[ref.owner].props.children
      [] OTHER -> NoList

\* the heap after the elements of the array at ref are replaced by es
ListPut(h, ref, es) ==
    CASE ref.field = "components" -> [h EXCEPT ![ref.owner].components.e = es]
      [] ref.field = "items" -> [h EXCEPT ![ref.owner].props.items.e = es]
      [] ref.field = "children" -> [h EXCEPT ![ref.owner].props.children.e = es]
      [] OTHER -> h

(***************************************************************************)
(* A path argument: an array of indices (arr is TRUE, e its elements), or  *)
(* a value that is no array.                                               *)
(***************************************************************************)
PathOf(es) == [arr |-> TRUE, e |-> es]
NotAnArray == [arr |-> FALSE, e |-> <<>>]

(***************************************************************************)
(* lookupByPath, part_001:44-70.                                           *)
(***************************************************************************)
\* part_001:63   parent.components || parent.props?.items || parent.props?.children
\* (an array, even an empty one, is truthy; so is any object)
ChildCollection(h, parent) ==
    LET o == h[parent]
    IN  IF o.components.k # "undefined" THEN Ref(parent, "components")
        ELSE IF o.props.present /\ o.props.items.k # "undefined" THEN Ref(parent, "items")
        ELSE IF o.props.present /\ o.props.children.k # "undefined" THEN Ref(parent, "children")
        ELSE NoRef

\* the result of a failed lookup: { node: null } and no other key
NotFound == [node |-> NullRef]

\* the loop of part_001:51-68 from index i on (i as in the code: path[i] is
\* the TLA+ element path[i + 1])
RECURSIVE LookupLoop(_, _, _, _, _, _)
LookupLoop(h, path, i, node, parent, listRef) ==
    IF i >= Len(path)
    THEN [parent |-> parent, listRef |-> listRef, node |-> node, index |-> path[Len(path)]]
    ELSE IF i = 1
    THEN LET sec == ArrayGet(h[node].sections, path[2])
         IN  IF sec = NullRef THEN NotFound
             ELSE LookupLoop(h, path, 2, sec, node, listRef)
    ELSE LET comps == ChildCollection(h, node)
             next == ArrayGet(ListAt(h, comps), path[i + 1])
         IN  IF ListAt(h, comps).k # "array" THEN NotFound
             ELSE IF next = NullRef THEN NotFound
             ELSE LookupLoop(h, path, i + 1, next, node, comps)

\* lookupByPath with the length guard one too low: a path that stops at a
\* section is answered with the section
lookupByPathFromSection(h, layout, path) ==
    IF ~path.arr \/ Len(path.e) < 2 THEN NotFound
    ELSE LET page == ArrayGet(h[layout].pages, path.e[1])
         IN  IF page = NullRef THEN NotFound
             ELSE LookupLoop(h, path.e, 1, page, NullRef, NoRef)

lookupByPath(h, layout, path) ==
    IF ~path.arr \/ Len(path.e) < 3 THEN NotFound
    ELSE LET page == ArrayGet(h[layout].pages, path.e[1])
         IN  IF page = NullRef THEN NotFound
             ELSE LookupLoop(h, path.e, 1, page, NullRef, NoRef)

\* lookup.listRef, undefined when the result has no such key
ListRefOf(lookup) == IF "listRef" \in DOMAIN lookup THEN lookup.listRef ELSE NoRef

(***************************************************************************)
(* setNodeByPath, part_001:72-80.  The result is the heap after the call   *)
(* and the address of the document returned.                               *)
(***************************************************************************)
\* setNodeByPath writing the first slot of the owning collection, whatever
\* the last index of the path
setNodeByPathFirstSlot(h, layout, path, newNode) ==
    LET copy == JSONparse(h, JSONstringify(h, layout))
        lookup == lookupByPath(copy.h, copy.a, path)
    IN  IF lookup.node = NullRef THEN copy
        ELSE IF lookup.listRef # NoRef
        THEN LET es == ListAt(copy.h, lookup.listRef).e
             IN  [h |-> ListPut(copy.h, lookup.listRef,
                                [i \in 1..Len(es) |-> IF i = 1 THEN newNode ELSE es[i]]),
                  a |-> copy.a]
        ELSE copy

setNodeByPath(h, layout, path, newNode) ==
    LET copy == JSONparse(h, JSONstringify(h, layout))
        lookup == lookupByPath(copy.h, copy.a, path)
    IN  IF lookup.node = NullRef THEN copy
        ELSE IF lookup.listRef # NoRef
        THEN LET es == ListAt(copy.h, lookup.listRef).e
             IN  [h |-> ListPut(copy.h, lookup.listRef,
                                [i \in 1..Len(es) |->
                                    IF i = lookup.index + 1 THEN newNode ELSE es[i]]),
                  a |-> copy.a]
        ELSE copy

(***************************************************************************)
(* Array.prototype.splice(start, 1): a start at or past the end removes    *)
(* nothing, a negative start counts from the end.                          *)
(***************************************************************************)
Splice1(es, start) ==
    LET len == Len(es)
        from == IF start < 0 THEN (IF len + start < 0 THEN 0 ELSE len + start)
                ELSE (IF start > len THEN len ELSE start)
    IN  IF from >= len THEN es
        ELSE [i \in 1..(len - 1) |-> IF i <= from THEN es[i] ELSE es[i + 1]]

(***************************************************************************)
(* deleteNodeByPath, part_001:82-94.                                       *)
(***************************************************************************)
\* deleteNodeByPath without the deep copy: the splice lands in the document
\* passed in
deleteNodeByPathInPlace(h, layout, path) ==
    LET copy == [h |-> h, a |-> layout]
    IN  IF ~path.arr THEN copy
        ELSE IF Len(path.e) < 3 THEN copy
        ELSE LET tail == path.e[Len(path.e)]
                 parentPath == PathOf(SubSeq(path.e, 1, Len(path.e) - 1))
                 lookup == lookupByPath(copy.h, copy.a, parentPath)
                 list == ListRefOf(lookup)
             IN  IF lookup.node = NullRef /\ list = NoRef THEN copy
                 ELSE IF ListAt(copy.h, list).k # "array" THEN copy
                 ELSE [h |-> ListPut(copy.h, list, Splice1(ListAt(copy.h, list).e, tail)),
                       a |-> copy.a]

\* deleteNodeByPath that also takes a path of length 2 and splices the section
\* it addresses out of its page
deleteNodeByPathWithSections(h, layout, path) ==
    LET copy == JSONparse(h, JSONstringify(h, layout))
    IN  IF ~path.arr THEN copy
        ELSE IF Len(path.e) < 2 THEN copy
        ELSE IF Len(path.e) = 2
        THEN LET page == ArrayGet(copy.h[copy.a].pages, path.e[1])
             IN  IF page = NullRef THEN copy
                 ELSE [h |-> [copy.h EXCEPT
                                ![page].sections.e = Splice1(copy.h[page].sections.e, path.e[2])],
                       a |-> copy.a]
        ELSE LET tail == path.e[Len(path.e)]
                 parentPath == PathOf(SubSeq(path.e, 1, Len(path.e) - 1))
                 lookup == lookupByPath(copy.h, copy.a, parentPath)
                 list == ListRefOf(lookup)
             IN  IF lookup.node = NullRef /\ list = NoRef THEN copy
                 ELSE IF ListAt(copy.h, list).k # "array" THEN copy
                 ELSE [h |-> ListPut(copy.h, list, Splice1(ListAt(copy.h, list).e, tail)),
                       a |-> copy.a]

deleteNodeByPath(h, layout, path) ==
    LET copy == JSONparse(h, JSONstringify(h, layout))
    IN  IF ~path.arr THEN copy
        ELSE IF Len(path.e) < 3 THEN copy
        ELSE LET tail == path.e[Len(path.e)]
                 parentPath == PathOf(SubSeq(path.e, 1, Len(path.e) - 1))
                 lookup == lookupByPath(copy.h, copy.a, parentPath)
                 list == ListRefOf(lookup)
             IN  IF lookup.node = NullRef /\ list = NoRef THEN copy
                 ELSE IF ListAt(copy.h, list).k # "array" THEN copy
                 ELSE [h |-> ListPut(copy.h, list, Splice1(ListAt(copy.h, list).e, tail)),
                       a |-> copy.a]

(***************************************************************************)
(* ensurePositionAndSizeRecursive, part_001:96-118.  It changes the layout *)
(* in place.  Math.random makes the result a set of heaps.                 *)
(***************************************************************************)
\* part_001:100   Math.round(Math.random() * 40 + 24) is one of 24..64
JitterBase == 24
JitterSpan == 40
\* the draws the model takes: the two ends of the band
RandomDraws == {JitterBase, JitterBase + JitterSpan}
DefaultWidth == 300
DefaultHeight == 140

\* the digits of a string of digits, as a number
Digits == <<"0", "1", "2", "3", "4", "5", "6", "7", "8", "9">>
DigitValue(c) == (CHOOSE d \in 1..10 : Digits[d] = c) - 1
RECURSIVE Decimal(_)
Decimal(cs) ==
    IF cs = <<>> THEN 0
    ELSE 10 * Decimal(SubSeq(cs, 1, Len(cs) - 1)) + DigitValue(cs[Len(cs)])

\* Number(v) for a leaf value: a string of digits is its number, the empty
\* string is 0, any other string is NaN
ToNumber(v) ==
    CASE v.t \in {"number", "NaN"} -> v
      [] v.t = "null" -> Num(0)
      [] v.t = "string" ->
            IF \A i \in 1..Len(v.s) : \E d \in 1..10 : Digits[d] = v.s[i]
            THEN Num(Decimal(v.s)) ELSE NaN
      [] OTHER -> NaN

\* part_001:98-109, ensure(comp): the heaps it can leave
RECURSIVE EnsureComp(_, _)
RECURSIVE EnsureEach(_, _)
EnsureEach(heaps, kids) ==
    IF kids = <<>> THEN heaps
    ELSE EnsureEach(UNION {EnsureComp(h, Head(kids)) : h \in heaps}, Tail(kids))
EnsureComp(h, comp) ==
    LET p == h[comp].props
        xs == IF IsNumber(p.x) THEN {p.x} ELSE {Num(r) : r \in RandomDraws}
        ys == IF IsNumber(p.y) THEN {p.y} ELSE {Num(r) : r \in RandomDraws}
        w == IF IsNumber(p.width) THEN p.width
             ELSE IF Truthy(p.width) THEN ToNumber(p.width) ELSE Num(DefaultWidth)
        ht == IF IsNumber(p.height) THEN p.height
              ELSE IF Truthy(p.height) THEN ToNumber(p.height) ELSE Num(DefaultHeight)
        kids == IF p.items.k # "undefined" THEN p.items ELSE p.children
        heaps == {[h EXCEPT ![comp].props =
                        [p EXCEPT !.present = TRUE, !.x = x, !.y = y,
                                  !.width = w, !.height = ht]] : x \in xs, y \in ys}
    IN  IF kids.k = "array" THEN EnsureEach(heaps, kids.e) ELSE heaps

\* part_001:111-115: every component of every section of every page, in order
RECURSIVE EnsureSections(_, _)
EnsureSections(heaps, secs) ==
    IF secs = <<>> THEN heaps
    ELSE EnsureSections(
            UNION {EnsureEach({g}, g[Head(secs)].components.e) : g \in heaps},
            Tail(secs))
RECURSIVE EnsurePages(_, _)
EnsurePages(heaps, pages) ==
    IF pages = <<>> THEN heaps
    ELSE EnsurePages(
            UNION {EnsureSections({g}, g[Head(pages)].sections.e) : g \in heaps},
            Tail(pages))
ensurePositionAndSizeRecursive(h, layout) == EnsurePages({h}, h[layout].pages.e)

(***************************************************************************)
(* Strings: one character per element.                                     *)
(***************************************************************************)
UpperCase ==
    <<"A", "B", "C", "D", "E", "F", "G", "H", "I", "J", "K", "L", "M",
      "N", "O", "P", "Q", "R", "S", "T", "U", "V", "W", "X", "Y", "Z">>
LowerCase ==
    <<"a", "b", "c", "d", "e", "f", "g", "h", "i", "j", "k", "l", "m",
      "n", "o", "p", "q", "r", "s", "t", "u", "v", "w", "x", "y", "z">>

\* String.prototype.toLowerCase
ToLowerCase(cs) ==
    [i \in 1..Len(cs) |->
        IF \E u \in 1..26 : UpperCase[u] = cs[i]
        THEN LowerCase[CHOOSE u \in 1..26 : UpperCase[u] = cs[i]]
        ELSE cs[i]]

\* the decimal digits of a number n >= 0
RECURSIVE DecimalString(_)
DecimalString(n) ==
    IF n < 10 THEN <<Digits[n + 1]>>
    ELSE DecimalString(n \div 10) \o <<Digits[(n % 10) + 1]>>

\* String(v) for a leaf value
StringOf(v) ==
    CASE v.t = "string" -> v.s
      [] v.t = "number" -> DecimalString(v.n)
      [] v.t = "NaN" -> <<"N", "a", "N">>
      [] v.t = "boolean" -> <<"t", "r", "u", "e">>
      [] v.t = "null" -> <<"n", "u", "l", "l">>
      [] OTHER -> <<"u", "n", "d", "e", "f", "i", "n", "e", "d">>

\* whether pat occurs in cs
Contains(cs, pat) ==
    \E i \in 0..(Len(cs) - Len(pat)) : SubSeq(cs, i + 1, i + Len(pat)) = pat

password == <<"p", "a", "s", "s", "w", "o", "r", "d">>
passwordinput == password \o <<"i", "n", "p", "u", "t">>
PasswordInput == <<"P", "a", "s", "s", "w", "o", "r", "d", "I", "n", "p", "u", "t">>
TextInput == <<"T", "e", "x", "t", "I", "n", "p", "u", "t">>
Button == <<"B", "u", "t", "t", "o", "n">>
form == <<"f", "o", "r", "m">>
FieldPrefix == <<"f", "i", "e", "l", "d", "-">>
BtnPrefix == <<"b", "t", "n", "-">>

(***************************************************************************)
(* convertBackendToFrontend, parseLayout.js:80-148.  It works on values:   *)
(* every node it returns is a new object.                                  *)
(***************************************************************************)
\* parseLayout.js:83-88
canonType(t) ==
    IF ~Truthy(t) THEN t
    ELSE LET k == ToLowerCase(StringOf(t))
         IN  IF k = password \/ k = passwordinput THEN Str(PasswordInput) ELSE t

\* a || b for leaf values
OrElse(a, b) == IF Truthy(a) THEN a ELSE b

\* parseLayout.js:112-120, one entry f of props.fields at index i
\* one entry of props.fields hoisted with its type as given, no default
HoistFieldWithoutDefault(f, i) ==
    Node(OrElse(f.id, Str(FieldPrefix \o DecimalString(i))),
         canonType(f.type),
         [(IF f.props.present THEN f.props ELSE EmptyProps) EXCEPT
            !.secure = IF Contains(ToLowerCase(StringOf(OrElse(f.type, Str(<<>>)))), password)
                       THEN True ELSE @],
         NoList)

\* one entry of props.fields hoisted, marked secure only for the exact type
HoistFieldSecureOnEquality(f, i) ==
    Node(OrElse(f.id, Str(FieldPrefix \o DecimalString(i))),
         canonType(OrElse(f.type, Str(TextInput))),
         [(IF f.props.present THEN f.props ELSE EmptyProps) EXCEPT
            !.secure = IF ToLowerCase(StringOf(OrElse(f.type, Str(<<>>)))) = password
                       THEN True ELSE @],
         NoList)

HoistField(f, i) ==
    Node(OrElse(f.id, Str(FieldPrefix \o DecimalString(i))),
         canonType(OrElse(f.type, Str(TextInput))),
         [(IF f.props.present THEN f.props ELSE EmptyProps) EXCEPT
            !.secure = IF Contains(ToLowerCase(StringOf(OrElse(f.type, Str(<<>>)))), password)
                       THEN True ELSE @],
         NoList)

\* parseLayout.js:121-125, one entry b of props.buttons at index i
HoistButton(b, i) ==
    Node(OrElse(b.id, Str(BtnPrefix \o DecimalString(i))),
         canonType(OrElse(b.type, Str(Button))),
         IF b.props.present THEN b.props ELSE EmptyProps,
         NoList)

\* the first source that is not empty, in the order props.children,
\* props.items, children
SeedChildrenFirstNonEmpty(comp) ==
    LET props == IF comp.props.present THEN comp.props ELSE EmptyProps
        filled(l) == l.k = "array" /\ l.e # <<>>
    IN  IF filled(props.children) THEN props.children
        ELSE IF filled(props.items) THEN props.items
        ELSE IF filled(comp.children) THEN comp.children
        ELSE Arr(<<>>)

\* parseLayout.js:99-103, the children a node is seeded with: an array is
\* truthy even when it is empty
SeedChildren(comp) ==
    LET props == IF comp.props.present THEN comp.props ELSE EmptyProps
    IN  IF props.children.k = "array" THEN props.children
        ELSE IF props.items.k = "array" THEN props.items
        ELSE IF comp.children.k # "undefined" THEN comp.children
        ELSE Arr(<<>>)

\* components is a collection of values; the result is the array returned
RECURSIVE convertBackendToFrontend(_)
convertBackendToFrontend(components) ==
    IF components.k # "array" THEN <<>>
    ELSE [c \in 1..Len(components.e) |->
        LET comp == components.e[c]
            type == canonType(comp.type)
            props == IF comp.props.present THEN comp.props ELSE EmptyProps
            children == SeedChildren(comp)
            isForm == ToLowerCase(StringOf(OrElse(type, Str(<<>>)))) = form
            fields == IF props.fields.k = "array" THEN props.fields.e ELSE <<>>
            buttons == IF props.buttons.k = "array" THEN props.buttons.e ELSE <<>>
            hoisted ==
                [i \in 1..Len(fields) |-> HoistField(fields[i], i - 1)]
                    \o [i \in 1..Len(buttons) |-> HoistButton(buttons[i], i - 1)]
            kept == IF isForm THEN [props EXCEPT !.fields = NoList, !.buttons = NoList]
                    ELSE props
        IN  [comp EXCEPT
                !.type = type,
                !.children = Arr(convertBackendToFrontend(
                                    IF isForm THEN Arr(hoisted) ELSE children)),
                !.props = [kept EXCEPT !.children = NoList, !.items = NoList]]]

\* parseLayout.js:235-242, the page normalizeBackendLayout pushes for a screen:
\* one section, "Main", holding the screen's converted components
ScreenPage(name, components) ==
    Page(name, Arr(<<Section(Str(<<"M", "a", "i", "n">>),
                            Arr(convertBackendToFrontend(components)))>>))

(***************************************************************************)
(* Raw documents, as ensureLayoutShape and normalizeBackendLayout take     *)
(* them.  A raw value is absent (k is "undefined" or "null"), a string, or *)
(* an object with the keys layout, pages, screens, theme, tokens.  theme   *)
(* and tokens hold a mapping m when they are objects.  A screen is an      *)
(* object with a name (in id), a title, a layout_type and components.      *)
(***************************************************************************)
Absent == [k |-> "undefined"]
NullRaw == [k |-> "null"]
AString == [k |-> "string"]
Mapping(m) == [k |-> "object", m |-> m]
Raw(layout, pages, screens, theme, tokens) ==
    [k |-> "object", layout |-> layout, pages |-> pages, screens |-> screens,
     theme |-> theme, tokens |-> tokens]
Screen(name, title, components) ==
    [NoObject EXCEPT !.kind = "screen", !.id = name, !.title = title,
                     !.components = components]

\* the outcome of a call that throws a TypeError
TypeError == [k |-> "throw"]

(***************************************************************************)
(* ensureLayoutShape, part_001:2-36.                                       *)
(***************************************************************************)
ScreenName == Str(<<"S", "c", "r", "e", "e", "n">>)
sectioned == Str(<<"s", "e", "c", "t", "i", "o", "n", "e", "d">>)
MainSection == Str(<<"M", "a", "i", "n", " ", "S", "e", "c", "t", "i", "o", "n">>)

\* part_001:26-31 and :33, the fallback palette and spacing
FallbackGap == 16
FallbackPadding == 20
FallbackTheme ==
    Mapping([primary |-> "#0D9488", secondary |-> "#CCFBF1",
             background |-> "#F9FAFB", text |-> "#0F172A"])
Tokens(gap, padding, theme) == Mapping([gap |-> gap, padding |-> padding, theme |-> theme])
FallbackTokens == Tokens(FallbackGap, FallbackPadding, Absent)

\* the page made of a screen, its components left behind
PageOfScreenWithoutComponents(s) ==
    [Page(OrElse(s.id, OrElse(s.title, ScreenName)),
          Arr(<<Section(MainSection, Arr(<<>>))>>))
        EXCEPT !.layout_type = OrElse(s.layout_type, sectioned)]

\* part_001:10-19, the page made of a screen s
PageOfScreen(s) ==
    [Page(OrElse(s.id, OrElse(s.title, ScreenName)),
          Arr(<<Section(MainSection,
                        IF s.components.k # "undefined" THEN s.components
                        ELSE Arr(<<>>))>>))
        EXCEPT !.layout_type = OrElse(s.layout_type, sectioned)]

\* no theme is looked for in the tokens
ThemeOfTokensIgnored(tokens) == Absent

\* raw.tokens?.theme
ThemeOfTokens(tokens) ==
    IF tokens.k = "object" THEN tokens.m.theme ELSE Absent

\* the value returned: NullRaw, the document, or TypeError when
\* raw.screens.map is no function (part_001:10)
ensureLayoutShape(raw0) ==
    IF raw0.k \in {"undefined", "null"} THEN NullRaw
    ELSE LET raw == IF raw0.layout.k = "object" THEN raw0.layout ELSE raw0
             fromScreens == raw.pages.k = "undefined" /\ raw.screens.k # "undefined"
         IN  IF fromScreens /\ raw.screens.k # "array" THEN TypeError
             ELSE LET mapped ==
                          IF fromScreens
                          THEN Arr([i \in 1..Len(raw.screens.e) |->
                                        PageOfScreen(raw.screens.e[i])])
                          ELSE raw.pages
                      theme ==
                          IF raw.theme.k # "undefined" THEN raw.theme
                          ELSE IF ThemeOfTokens(raw.tokens).k # "undefined"
                          THEN ThemeOfTokens(raw.tokens)
                          ELSE FallbackTheme
                  IN  [raw EXCEPT
                          !.pages = IF mapped.k = "array" THEN mapped ELSE Arr(<<>>),
                          !.theme = theme,
                          !.tokens = IF @.k # "undefined" THEN @ ELSE FallbackTokens]

(***************************************************************************)
(* normalizeBackendLayout, parseLayout.js:153-251.                         *)
(***************************************************************************)
\* parseLayout.js:161-165: the entry compMap holds for an id, the last entry
\* of intermediate.components with that id; NoObject when there is none
CatalogEntry(compList, id) ==
    LET hits == {i \in 1..Len(compList) :
                    Truthy(compList[i].id) /\ StringOf(compList[i].id) = StringOf(id)}
    IN  IF hits = {} THEN NoObject
        ELSE compList[CHOOSE i \in hits : \A j \in hits : j <= i]

\* parseLayout.js:71-75
resolveComponent(component, compList, fallbackId) ==
    IF Truthy(component.id) /\ CatalogEntry(compList, component.id) # NoObject
    THEN CatalogEntry(compList, component.id)
    ELSE [component EXCEPT !.id = OrElse(@, fallbackId)]

\* parseLayout.js:228, the fallback id `s${si}-c${i}`
FallbackId(si, i) ==
    Str(<<"s">> \o DecimalString(si) \o <<"-", "c">> \o DecimalString(i))

\* parseLayout.js:175-210, generateFallbackComponents(screenName)
\* (the copyright sign of the footer text is the one element "U+00A9")
FeatureCount == 3
FeatureCard(n, screenName) ==
    Node(Str(<<"f", "e", "a", "t", "u", "r", "e", "-">> \o DecimalString(n) \o <<"-">> \o StringOf(screenName)),
         Str(<<"F", "e", "a", "t", "u", "r", "e", "C", "a", "r", "d">>),
         [EmptyProps EXCEPT !.title = Str(<<"F", "e", "a", "t", "u", "r", "e", " ">> \o DecimalString(n))],
         NoList)
generateFallbackComponents(screenName) ==
    <<Node(Str(<<"h", "e", "r", "o", "-">> \o StringOf(screenName)),
           Str(<<"H", "e", "r", "o", "S", "e", "c", "t", "i", "o", "n">>),
           [EmptyProps EXCEPT !.title = Str(<<"W", "e", "l", "c", "o", "m", "e">>),
                              !.subtitle = Str(<<"Y", "o", "u", "r", " ", "h", "e", "r", "o", " ", "s", "e", "c", "t", "i", "o", "n">>)],
           Arr(<<>>)),
      Node(Str(<<"f", "e", "a", "t", "u", "r", "e", "s", "-">> \o StringOf(screenName)),
           Str(<<"G", "r", "i", "d">>),
           [EmptyProps EXCEPT !.columns = Num(FeatureCount)],
           Arr([n \in 1..FeatureCount |-> FeatureCard(n, screenName)])),
      Node(Str(<<"f", "o", "o", "t", "e", "r", "-">> \o StringOf(screenName)),
           Str(<<"F", "o", "o", "t", "e", "r">>),
           [EmptyProps EXCEPT !.text = Str(<<"U+00A9", " ", "2", "0", "2", "5", " ", "Y", "o", "u", "r", " ", "C", "o", "m", "p", "a", "n", "y">>)],
           Arr(<<>>))>>

\* the list convertBackendToFrontend goes on with under a node
\* (parseLayout.js:99-103, :108-126, :129, :136)
ChildSource(comp) ==
    LET type == canonType(comp.type)
        props == IF comp.props.present THEN comp.props ELSE EmptyProps
        fields == IF props.fields.k = "array" THEN props.fields.e ELSE <<>>
        buttons == IF props.buttons.k = "array" THEN props.buttons.e ELSE <<>>
    IN  IF ToLowerCase(StringOf(OrElse(type, Str(<<>>)))) = form
        THEN Arr([i \in 1..Len(fields) |-> HoistField(fields[i], i - 1)]
                    \o [i \in 1..Len(buttons) |-> HoistButton(buttons[i], i - 1)])
        ELSE SeedChildren(comp)

\* parseLayout.js:107: (normalizedComp.type || "").toLowerCase() throws a
\* TypeError for a type that is truthy and no string, at any node gone through
RECURSIVE ConvertThrows(_)
ConvertThrows(components) ==
    /\ components.k = "array"
    /\ \E c \in 1..Len(components.e) :
          LET comp == components.e[c]
          IN  \/ Truthy(canonType(comp.type)) /\ canonType(comp.type).t # "string"
              \/ ConvertThrows(ChildSource(comp))

\* the document returned for a raw layout that is an object
Layout(pages, tokens, theme) ==
    [k |-> "object", pages |-> pages, tokens |-> tokens, theme |-> theme]
EmptyMapping == Mapping(<<>>)
MainName == Str(<<"M", "a", "i", "n">>)

\* parseLayout.js:220-243, the components of screen s at index si (from 0)
\* (the modelled screens have no content or items key, so compsRaw is
\* s.components or the empty list)
ScreenComponents(s, si, compList) ==
    LET compsRaw == IF s.components.k # "undefined" THEN s.components.e ELSE <<>>
        components == [i \in 1..Len(compsRaw) |->
                          resolveComponent(compsRaw[i], compList, FallbackId(si, i - 1))]
        screenName == OrElse(s.id, OrElse(s.title,
                          Str(ScreenName.s \o <<" ">> \o DecimalString(si + 1))))
    IN  IF components = <<>> THEN generateFallbackComponents(screenName) ELSE components

\* the value returned, or TypeError
normalizeBackendLayout(rawLayout, intermediate) ==
    IF rawLayout.k \in {"undefined", "null"} THEN [k |-> "object", pages |-> Arr(<<>>)]
    ELSE LET raw == IF rawLayout.layout.k = "object" THEN rawLayout.layout ELSE rawLayout
             compList == intermediate.components.e
             \* parseLayout.js:170-172: [] is truthy, raw.screens is never read
             screens == IF raw.pages.k = "array" /\ raw.pages.e # <<>>
                        THEN raw.pages.e ELSE <<>>
             pageOf(si) ==
                LET s == screens[si + 1]
                IN  [ScreenPage(OrElse(s.id, OrElse(s.title,
                                    Str(ScreenName.s \o <<" ">> \o DecimalString(si + 1)))),
                                Arr(ScreenComponents(s, si, compList)))
                        EXCEPT !.layout_type = OrElse(s.layout_type, sectioned)]
             pages ==
                IF screens = <<>>
                THEN <<[Page(ScreenName,
                             Arr(<<Section(MainName,
                                           Arr(generateFallbackComponents(
                                                Str(<<"d", "e", "f", "a", "u", "l", "t">>))))>>))
                          EXCEPT !.layout_type = sectioned]>>
                ELSE [i \in 1..Len(screens) |-> pageOf(i - 1)]
         IN  IF \/ intermediate.components.k = "object"
                \/ \E i \in 1..Len(screens) :
                      \/ screens[i].components.k = "object"
                      \/ ConvertThrows(Arr(ScreenComponents(screens[i], i - 1, compList)))
             THEN TypeError
             ELSE Layout(Arr(pages),
                         IF raw.tokens.k # "undefined" THEN raw.tokens ELSE EmptyMapping,
                         IF raw.theme.k # "undefined" THEN raw.theme ELSE EmptyMapping)

(***************************************************************************)
(* The documents the behaviours start from.                                *)
(***************************************************************************)
\* the strings of the sample documents, one character per element
Text == Str(<<"T", "e", "x", "t">>)
Card == Str(<<"C", "a", "r", "d">>)
Row == Str(<<"R", "o", "w">>)
Image == Str(<<"I", "m", "a", "g", "e">>)
Home == Str(<<"H", "o", "m", "e">>)
Main == Str(<<"M", "a", "i", "n">>)
Percent == Str(<<"1", "0", "0", "%">>)
Id(c) == Str(<<c>>)

Geometry == Props(Num(10), Num(10), Num(100), Num(50), NoList, NoList)
Leaf(c) == Node(Id(c), Text, Geometry, NoList)

\* nested components: under props.items (the backend's shape) in the first
\* component; under props.children in the second, hidden there by a
\* props.items that is no array
NestedComponents ==
    <<Node(Id("g"), Card,
           Props(Num(10), Num(10), Num(100), Num(50),
                 Arr(<<Leaf("c"), Leaf("d")>>), NoList), NoList),
      Node(Id("k"), Row,
           Props(Num(10), Num(10), Num(100), Num(50),
                 NotArray, Arr(<<Leaf("e")>>)), NoList)>>
DocNested ==
    Doc(Arr(<<Page(Home, Arr(<<Section(Main, Arr(NestedComponents))>>))>>))
\* no geometry yet and a width that is no number; nested components under
\* props.children; a section with no components key
DocRaw ==
    Doc(Arr(<<Page(Home, Arr(<<
        Section(Main, Arr(<<
            Node(Id("r"), Image,
                 Props(Undefined, Num(10), Percent, Undefined,
                       NoList, Arr(<<Leaf("f")>>)), NoList),
            Leaf("b")>>)),
        Section(Id("E"), NoList)>>))>>))

\* the canonical shape: the nested components as convertBackendToFrontend
\* returns them, every node's nested nodes in its top-level children
DocCanonical == Doc(Arr(<<ScreenPage(Home, Arr(NestedComponents))>>))

InitialDocuments == {DocNested, DocRaw, DocCanonical}

(***************************************************************************)
(* The caller's inputs.                                                    *)
(***************************************************************************)
RECURSIVE SeqsUpTo(_, _)
SeqsUpTo(S, n) ==
    IF n = 0 THEN {<<>>}
    ELSE LET shorter == SeqsUpTo(S, n - 1)
         IN  shorter \cup {Append(q, x) : q \in {r \in shorter : Len(r) = n - 1}, x \in S}

Paths == {PathOf(es) : es \in SeqsUpTo(0..MaxIdx, MaxPathLen)} \cup {NotAnArray}

\* a node the caller builds for setNodeByPath
NewLeaf == Leaf("n")

(***************************************************************************)
(* The inputs of the normalizers: component lists, a catalog, and the raw  *)
(* documents that carry a component list in the shapes the backend sends.  *)
(***************************************************************************)
\* entries of props.fields and props.buttons (partial node descriptors)
FieldPassword == Node(Undefined, Str(password), NoProps, NoList)
FieldPassWordInput ==
    Node(Id("u"), Str(<<"P", "a", "s", "s", "W", "o", "r", "d", "I", "n", "p", "u", "t">>), [EmptyProps EXCEPT !.text = Text], NoList)
FieldUntyped == Node(Undefined, Undefined, NoProps, NoList)
FieldSecureText == Node(Id("t"), Text, [EmptyProps EXCEPT !.secure = True], NoList)
FieldNewPassword == Node(Undefined, Str(<<"N", "e", "w", "P", "a", "s", "s", "w", "o", "r", "d">>), NoProps, NoList)
ButtonTyped == Node(Undefined, Str(Button), NoProps, NoList)
ButtonPassword == Node(Id("k"), Str(<<"P", "a", "s", "s", "w", "o", "r", "d">>), NoProps, NoList)
FormParts ==
    {[fields |-> NoList, buttons |-> NoList],
     [fields |-> Arr(<<FieldPassword, FieldPassWordInput, FieldUntyped>>),
      buttons |-> Arr(<<ButtonTyped, ButtonPassword>>)],
     [fields |-> Arr(<<FieldSecureText, FieldNewPassword>>), buttons |-> NoList]}

\* nested nodes: with an id, without one, and with nested nodes of its own
KidA == Leaf("a")
KidB == Node(Undefined, Text, Geometry, NoList)
KidC == Node(Id("c"), Card,
             Props(Num(10), Num(10), Num(100), Num(50), Arr(<<Leaf("d")>>), NoList),
             NoList)

FormType == Str(<<"F", "o", "r", "m">>)
FORMType == Str(<<"F", "O", "R", "M">>)
\* a type that is no string
NumericType == Num(7)

\* the nodes.  Nodes that are no form: every combination of id, type and
\* the three places nested nodes come in, with and without form parts.
\* Forms: every combination of id, type and form parts, with and without
\* nested nodes.
PlainNodes ==
    {Node(id, type,
          [EmptyProps EXCEPT !.children = pc, !.items = pi,
                             !.fields = fp.fields, !.buttons = fp.buttons],
          ch) :
        id \in {Id("g"), Undefined},
        type \in {Card, NumericType},
        pc \in {NoList, Arr(<<>>), Arr(<<KidA>>)},
        pi \in {NoList, Arr(<<KidB>>)},
        ch \in {NoList, Arr(<<KidC>>)},
        fp \in {f \in FormParts : f.buttons = NoList => f.fields = NoList}}
FormNodes ==
    {Node(id, type,
          [EmptyProps EXCEPT !.children = kids.pc, !.items = kids.pi,
                             !.fields = fp.fields, !.buttons = fp.buttons],
          kids.ch) :
        id \in {Id("g"), Undefined},
        type \in {FormType, FORMType},
        kids \in {[pc |-> NoList, pi |-> NoList, ch |-> NoList],
                  [pc |-> Arr(<<KidA>>), pi |-> Arr(<<KidB>>), ch |-> Arr(<<KidC>>)]},
        fp \in FormParts}
SampleNodes == PlainNodes \cup FormNodes

\* a form nested in a node that is no form
NestedForm ==
    Node(Id("h"), Card,
         [EmptyProps EXCEPT !.items =
            Arr(<<Node(Undefined, FormType,
                       [EmptyProps EXCEPT
                            !.fields = Arr(<<FieldUntyped, FieldPassword>>),
                            !.buttons = Arr(<<ButtonTyped>>)],
                       NoList)>>)],
         NoList)

\* the form of the login screen: one field, one button, no ids
Email == Str(<<"E", "m", "a", "i", "l">>)
SignIn == Str(<<"S", "i", "g", "n", " ", "I", "n">>)
Login == Str(<<"L", "o", "g", "i", "n">>)
LoginField == Node(Undefined, Str(TextInput), [EmptyProps EXCEPT !.label = Email], NoList)
LoginButton == Node(Undefined, Str(Button), [EmptyProps EXCEPT !.text = SignIn], NoList)
LoginForm ==
    Node(Undefined, FormType,
         [EmptyProps EXCEPT !.fields = Arr(<<LoginField>>), !.buttons = Arr(<<LoginButton>>)],
         NoList)

ComponentLists ==
    {Arr(<<n>>) : n \in SampleNodes}
        \cup {Arr(<<>>), Arr(NestedComponents), Arr(<<KidB, KidC>>), Arr(<<NestedForm>>),
              Arr(<<LoginForm>>)}

\* intermediate: no catalog, or one with an entry for "g" and one for "c"
CatalogG == Node(Id("g"), Row, Geometry, NoList)
CatalogC == Node(Id("c"), Image, Geometry, NoList)
Intermediates ==
    {[components |-> NoList], [components |-> Arr(<<CatalogG, CatalogC>>)]}

ScreenNames == {Id("A"), Login, Undefined}

\* the raw documents that carry the components xs under the name A
Legacy(A, xs) == Raw(Absent, NoList, Arr(<<Screen(A, Undefined, xs)>>), Absent, Absent)
Paged(A, xs) ==
    Raw(Absent, Arr(<<Page(A, Arr(<<Section(Undefined, xs)>>))>>), NoList, Absent, Absent)
\* a theme carried inside the tokens
TokensTheme ==
    Mapping([primary |-> "#111111", secondary |-> "#222222",
             background |-> "#333333", text |-> "#444444"])
Shapes ==
    {"legacy", "paged", "components", "wrapped", "nested", "screens", "pages", "null"}
RawOf(shape, A, xs) ==
    CASE shape = "legacy" -> Legacy(A, xs)
      [] shape = "paged" -> [Paged(A, xs) EXCEPT !.theme = AString]
      \* pages whose components are on the page itself, no sections
      [] shape = "components" ->
            Raw(Absent, Arr(<<[Page(A, NoList) EXCEPT !.components = xs]>>), NoList,
                Absent, Tokens(8, 8, TokensTheme))
      [] shape = "wrapped" -> Raw(Legacy(A, xs), NoList, NoList, Absent, Absent)
      \* a layout that has an object under its own layout key
      [] shape = "nested" ->
            Raw(Raw(Paged(A, xs), NoList, NoList, Absent, Absent),
                NoList, NoList, Absent, Absent)
      \* screens that is no array
      [] shape = "screens" -> Raw(Absent, NoList, NotArray, Absent, Absent)
      \* pages that is no array, beside usable screens
      [] shape = "pages" ->
            Raw(AString, NotArray, Arr(<<Screen(A, Home, xs)>>), Absent, AString)
      [] OTHER -> NullRaw

(***************************************************************************)
(* State.                                                                  *)
(*   heap   the objects                                                    *)
(*   snaps  the documents obtained so far, oldest first (addresses)        *)
(*   call   the last call: its arguments, its result, and whether its path *)
(*          resolved in its input document when it was made                *)
(*   ensures the number of ensurePositionAndSizeRecursive calls so far     *)
(*   norm   the normalizers at work: the input drawn (a component list xs, *)
(*          a raw document raw that carries it, an intermediate), the last *)
(*          normalizer called (op) with its argument (arg) and what it     *)
(*          returned (out), and the number of calls so far                 *)
(***************************************************************************)
VARIABLES heap, snaps, call, ensures, norm, app

vars == <<heap, snaps, call, ensures, norm, app>>

NoCall ==
    [op |-> "none", src |-> NullRef, path |-> PathOf(<<>>), newNode |-> NullRef,
     res |-> NullRef, resolved |-> FALSE]

NoNorm ==
    [xs |-> NoList, raw |-> NullRaw, intermediate |-> [components |-> NoList],
     op |-> "none", arg |-> NullRaw, out |-> NullRaw, calls |-> 0,
     theme |-> [text |-> Undefined, primary |-> Undefined]]

\* App.jsx:11-23, the state of App after its first render: no preset (null),
\* the prompt the textarea starts with, nothing in flight
NoPreset == "null"
\* a prompt, told by where it comes from: the initial text, typed text, the
\* refined text, the text of a preset; the empty text; no prompt at all
Prompt(src) == [src |-> src, id |-> NoPreset]
PresetPrompt(id) == [src |-> "preset", id |-> id]
EmptyPrompt == Prompt("empty")
NoPrompt == Prompt("none")
InitialApp ==
    [inputMode |-> "manual", selectedPreset |-> NoPreset, prompt |-> Prompt("initial"),
     loading |-> FALSE, enhancing |-> FALSE, error |-> "null",
     enhancedPrompt |-> EmptyPrompt, sent |-> NoPrompt, layout |-> NoPrompt]

Init ==
    \E d \in InitialDocuments :
        LET made == JSONparse(<<>>, d)
        IN  /\ heap = made.h
            /\ snaps = <<made.a>>
            /\ call = NoCall
            /\ ensures = 0
            /\ norm = NoNorm
            /\ app = InitialApp

\* the calls made so far
Ops == (Len(snaps) - 1) + ensures

\* setNodeByPath(D, path, N) with N a node the caller has just built
SetNew ==
    /\ Ops < MaxOps
    /\ \E i \in 1..Len(snaps), path \in Paths :
        LET n == JSONparse(heap, NewLeaf)
            r == setNodeByPath(n.h, snaps[i], path, n.a)
        IN  /\ heap' = r.h
            /\ snaps' = Append(snaps, r.a)
            /\ call' = [op |-> "set", src |-> snaps[i], path |-> path, newNode |-> n.a,
                        res |-> r.a,
                        resolved |-> lookupByPath(heap, snaps[i], path).node # NullRef]
            /\ UNCHANGED <<ensures, norm, app>>

\* setNodeByPath(D, path, N) with N a node taken from a document obtained earlier
SetExisting ==
    /\ Ops < MaxOps
    /\ \E i \in 1..Len(snaps), path \in Paths, from \in {PathOf(<<0, 0, 0>>)} :
        LET n == lookupByPath(heap, snaps[i], from).node
            r == setNodeByPath(heap, snaps[i], path, n)
        IN  /\ n # NullRef
            /\ heap' = r.h
            /\ snaps' = Append(snaps, r.a)
            /\ call' = [op |-> "set", src |-> snaps[i], path |-> path, newNode |-> n,
                        res |-> r.a,
                        resolved |-> lookupByPath(heap, snaps[i], path).node # NullRef]
            /\ UNCHANGED <<ensures, norm, app>>

Delete ==
    /\ Ops < MaxOps
    /\ \E i \in 1..Len(snaps), path \in Paths :
        LET r == deleteNodeByPath(heap, snaps[i], path)
        IN  /\ heap' = r.h
            /\ snaps' = Append(snaps, r.a)
            /\ call' = [op |-> "delete", src |-> snaps[i], path |-> path,
                        newNode |-> NullRef, res |-> r.a,
                        resolved |-> lookupByPath(heap, snaps[i], path).node # NullRef]
            /\ UNCHANGED <<ensures, norm, app>>

\* ensurePositionAndSizeRecursive(D): D is changed in place and returned
Ensure ==
    /\ Ops < MaxOps
    /\ ensures' = ensures + 1
    /\ UNCHANGED <<norm, app>>
    /\ \E i \in 1..Len(snaps) :
        /\ heap' \in ensurePositionAndSizeRecursive(heap, snaps[i])
        /\ snaps' = snaps
        /\ call' = [op |-> "ensure", src |-> snaps[i], path |-> PathOf(<<>>),
                    newNode |-> NullRef, res |-> snaps[i], resolved |-> FALSE]

Next == SetNew \/ SetExisting \/ Delete \/ Ensure

Spec == Init /\ [][Next]_vars

(***************************************************************************)
(* ComponentRendererLite, ComponentRendererLite.jsx:649-723.  What it      *)
(* renders for a node is a tree: nothing, the placeholder of an unknown    *)
(* type with what its children render, or an element of a handler with the *)
(* props handed to it and what its children render.  A TypeError thrown    *)
(* while a child renders ends the whole render.                            *)
(***************************************************************************)
\* ComponentRendererLite.jsx:649-662, the keys of COMPONENT_MAP
ComponentKeys ==
    {<<"c", "o", "n", "t", "a", "i", "n", "e", "r">>, <<"c", "a", "r", "d">>,
     <<"s", "p", "a", "c", "e", "r">>, <<"g", "r", "i", "d">>,
     <<"s", "t", "a", "c", "k">>, <<"h", "e", "a", "d", "e", "r">>,
     <<"t", "e", "x", "t">>, <<"r", "i", "c", "h", "t", "e", "x", "t">>,
     <<"d", "i", "v", "i", "d", "e", "r">>, <<"b", "a", "d", "g", "e">>,
     <<"c", "h", "i", "p">>, <<"t", "e", "x", "t", "i", "n", "p", "u", "t">>,
     <<"p", "a", "s", "s", "w", "o", "r", "d", "i", "n", "p", "u", "t">>,
     <<"i", "c", "o", "n", "i", "n", "p", "u", "t">>,
     <<"s", "e", "a", "r", "c", "h", "i", "n", "p", "u", "t">>,
     <<"c", "h", "e", "c", "k", "b", "o", "x">>,
     <<"s", "w", "i", "t", "c", "h">>, <<"b", "u", "t", "t", "o", "n">>,
     <<"g", "r", "a", "d", "i", "e", "n", "t", "b", "u", "t", "t", "o", "n">>,
     <<"s", "o", "c", "i", "a", "l", "b", "u", "t", "t", "o", "n">>,
     <<"i", "c", "o", "n", "b", "u", "t", "t", "o", "n">>,
     <<"f", "l", "o", "a", "t", "i", "n", "g", "a", "c", "t", "i", "o", "n", "b", "u", "t", "t", "o", "n">>,
     <<"l", "i", "n", "k", "b", "u", "t", "t", "o", "n">>,
     <<"l", "i", "n", "k">>, <<"i", "m", "a", "g", "e">>,
     <<"a", "v", "a", "t", "a", "r">>,
     <<"i", "l", "l", "u", "s", "t", "r", "a", "t", "i", "o", "n", "h", "e", "a", "d", "e", "r">>,
     <<"h", "e", "r", "o", "s", "e", "c", "t", "i", "o", "n">>,
     <<"i", "m", "a", "g", "e", "g", "a", "l", "l", "e", "r", "y">>,
     <<"s", "t", "a", "t", "c", "a", "r", "d">>,
     <<"p", "r", "o", "d", "u", "c", "t", "c", "a", "r", "d">>,
     <<"q", "u", "a", "n", "t", "i", "t", "y", "c", "o", "n", "t", "r", "o", "l">>,
     <<"c", "a", "r", "t", "i", "t", "e", "m">>,
     <<"p", "r", "i", "c", "e", "b", "r", "e", "a", "k", "d", "o", "w", "n">>,
     <<"p", "r", "o", "g", "r", "e", "s", "s", "b", "a", "r">>,
     <<"a", "p", "p", "b", "a", "r">>, <<"t", "a", "b", "b", "a", "r">>,
     <<"f", "o", "r", "m", "s", "e", "c", "t", "i", "o", "n">>,
     <<"l", "i", "s", "t">>, <<"l", "i", "s", "t", "i", "t", "e", "m">>,
     <<"c", "a", "r", "d", "l", "i", "s", "t">>,
     <<"r", "a", "t", "i", "n", "g">>, <<"a", "l", "e", "r", "t">>,
     <<"e", "m", "p", "t", "y", "s", "t", "a", "t", "e">>,
     <<"f", "o", "r", "m">>, <<"f", "o", "o", "t", "e", "r">>}

header == <<"h", "e", "a", "d", "e", "r">>
button == <<"b", "u", "t", "t", "o", "n">>
primary == <<"p", "r", "i", "m", "a", "r", "y">>
White == Str(<<"#", "F", "F", "F", "F", "F", "F">>)

RenderedNothing == [k |-> "null"]
Placeholder(tag, kids) == [k |-> "unknown", tag |-> tag, kids |-> kids]
Element(comp, props, kids) == [k |-> "element", comp |-> comp, props |-> props, kids |-> kids]

\* ComponentRendererLite.jsx:677-678, the children made of a form's fields
\* and buttons: no alias of the type, no secure
\* (props.fields and props.buttons are absent or arrays in the modelled inputs)
FormChildren(props) ==
    [i \in 1..Len(props.fields.e) |->
        LET f == props.fields.e[i]
        IN  [NoObject EXCEPT
                !.kind = "node",
                !.id = OrElse(f.id, Str(FieldPrefix \o DecimalString(i - 1))),
                !.type = OrElse(f.type, Str(TextInput)),
                !.props = IF f.props.present THEN f.props ELSE EmptyProps]]
    \o [i \in 1..Len(props.buttons.e) |->
        LET b == props.buttons.e[i]
        IN  [NoObject EXCEPT
                !.kind = "node",
                !.id = OrElse(b.id, Str(BtnPrefix \o DecimalString(i - 1))),
                !.type = OrElse(b.type, Str(Button)),
                !.props = IF b.props.present THEN b.props ELSE EmptyProps]]

\* the objects among es (filter(Boolean) drops what normalizeNode gave null for)
RECURSIVE Objects(_)
Objects(es) ==
    IF es = <<>> THEN <<>>
    ELSE IF Head(es).kind = "none" THEN Objects(Tail(es))
    ELSE <<Head(es)>> \o Objects(Tail(es))

\* ComponentRendererLite.jsx:664-688, for a node that is an object.  The
\* form branch builds the children from props.fields and props.buttons
\* alone and puts them in the place of the children found before.
RECURSIVE normalizeNode(_)
normalizeNode(node) ==
    LET typeLower == ToLowerCase(StringOf(OrElse(node.type, Str(<<>>))))
        props0 == IF node.props.present THEN node.props ELSE EmptyProps
        kids == IF props0.children.k = "array" THEN props0.children.e
                ELSE IF props0.items.k = "array" THEN props0.items.e
                ELSE IF node.children.k = "array" THEN node.children.e
                ELSE <<>>
        props == [props0 EXCEPT !.children = NoList, !.items = NoList]
        objs == Objects(kids)
    IN  IF typeLower = form
        THEN [node EXCEPT
                !.props = [props EXCEPT !.fields = NoList, !.buttons = NoList],
                !.children = Arr(FormChildren(props))]
        ELSE [node EXCEPT
                !.props = props,
                !.children = Arr([i \in 1..Len(objs) |-> normalizeNode(objs[i])])]

\* theming that gives every button without bg the primary colour, whatever
\* its variant
themedPropsAnyVariant(key, props, theme) ==
    IF key = header /\ ~Truthy(props.color)
    THEN [props EXCEPT !.color = theme.text]
    ELSE IF key = button /\ ~Truthy(props.bg)
    THEN [props EXCEPT !.bg = theme.primary, !.color = White]
    ELSE props

\* ComponentRendererLite.jsx:710-715, the props handed to the handler of key
themedProps(key, props, theme) ==
    IF key = header /\ ~Truthy(props.color)
    THEN [props EXCEPT !.color = theme.text]
    ELSE IF /\ key = button
            /\ ~Truthy(props.bg)
            /\ (props.variant.t \in {"undefined", "null"} \/ props.variant = Str(primary))
    THEN [props EXCEPT !.bg = theme.primary, !.color = White]
    ELSE props

\* ComponentRendererLite.jsx:690-723
RECURSIVE Render(_, _)
Render(node, theme) ==
    IF node.kind = "none" THEN RenderedNothing
    ELSE LET n == normalizeNode(node)
             kids == [i \in 1..Len(n.children.e) |-> Render(n.children.e[i], theme)]
             thrown == \E i \in 1..Len(kids) : kids[i] = TypeError
         IN  \* (n.type || "").toLowerCase() is no function for a number
             IF Truthy(n.type) /\ n.type.t # "string" THEN TypeError
             ELSE LET key == ToLowerCase(StringOf(OrElse(n.type, Str(<<>>))))
                  IN  IF thrown THEN TypeError
                      ELSE IF key \notin ComponentKeys THEN Placeholder(n.type, kids)
                      ELSE Element(key, themedProps(key, n.props, theme), kids)

(***************************************************************************)
(* The enricher alone: ensurePositionAndSizeRecursive called on documents  *)
(* whose components have no geometry yet, in the shapes the backend sends  *)
(* and in the canonical shape convertBackendToFrontend returns.            *)
(***************************************************************************)
\* a component with no props at all
Bare(c) == Node(Id(c), Text, NoProps, NoList)

\* a card holding two bare components under props.items
CardOfBare ==
    Node(Id("g"), Card, [EmptyProps EXCEPT !.items = Arr(<<Bare("c"), Bare("d")>>)], NoList)

\* the card as the backend sends it, with a height of its own
DocBare ==
    Doc(Arr(<<Page(Home, Arr(<<Section(Main, Arr(<<
        [CardOfBare EXCEPT !.props.height = Num(50)]>>))>>))>>))

\* the card as convertBackendToFrontend returns it
DocBareCanonical == Doc(Arr(<<ScreenPage(Home, Arr(<<CardOfBare>>))>>))

\* a bare component under props.children, beside an empty props.items
DocBareHidden ==
    Doc(Arr(<<Page(Home, Arr(<<Section(Main, Arr(<<
        Node(Id("k"), Row,
             [EmptyProps EXCEPT !.items = Arr(<<>>), !.children = Arr(<<Bare("e")>>)],
             NoList)>>))>>))>>))

GeometryDocuments == {DocRaw, DocBare, DocBareCanonical, DocBareHidden}

InitGeom ==
    \E d \in GeometryDocuments :
        LET made == JSONparse(<<>>, d)
        IN  /\ heap = made.h
            /\ snaps = <<made.a>>
            /\ call = NoCall
            /\ ensures = 0
            /\ norm = NoNorm
            /\ app = InitialApp

NextGeom == Ensure

SpecGeom == InitGeom /\ [][NextGeom]_vars

(***************************************************************************)
(* The normalizers are functions of their arguments.  Their behaviours     *)
(* start from an input drawn from the samples and call them on it;         *)
(* ensureLayoutShape is also called on what it returned.                   *)
(***************************************************************************)
InitNorm ==
    /\ heap = <<>>
    /\ snaps = <<>>
    /\ call = NoCall
    /\ ensures = 0
    /\ app = InitialApp
    /\ \E xs \in ComponentLists, shape \in Shapes, A \in ScreenNames,
          intermediate \in Intermediates :
            norm = [NoNorm EXCEPT !.xs = xs, !.raw = RawOf(shape, A, xs),
                                  !.intermediate = intermediate]

\* what convertBackendToFrontend(components) comes to: the array, or TypeError
Converted(components) ==
    IF ConvertThrows(components) THEN TypeError
    ELSE Arr(convertBackendToFrontend(components))

Called(op, arg, out) ==
    /\ norm.calls < MaxCalls
    /\ norm' = [norm EXCEPT !.op = op, !.arg = arg, !.out = out, !.calls = @ + 1]
    /\ UNCHANGED <<heap, snaps, call, ensures, app>>

\* ensureLayoutShape(raw)
EnsureShape ==
    Called("ensureLayoutShape", norm.raw, ensureLayoutShape(norm.raw))

\* ensureLayoutShape called on the document it returned
EnsureShapeAgain ==
    /\ norm.op = "ensureLayoutShape"
    /\ norm.out # TypeError
    /\ Called("ensureLayoutShape", norm.out, ensureLayoutShape(norm.out))

\* convertBackendToFrontend(xs)
Convert ==
    Called("convertBackendToFrontend", norm.xs, Converted(norm.xs))

\* normalizeBackendLayout(raw, intermediate)
Normalize ==
    Called("normalizeBackendLayout", norm.raw,
           normalizeBackendLayout(norm.raw, norm.intermediate))

NextNorm == EnsureShape \/ EnsureShapeAgain \/ Convert \/ Normalize

SpecNorm == InitNorm /\ [][NextNorm]_vars

(***************************************************************************)
(* The dispatcher is a function of the node and the ambient theme.  Its    *)
(* behaviours start from a list of nodes and a theme; it is called on a    *)
(* node of the list as the backend sent it (App.jsx:99 hands the backend's *)
(* document to the canvas as it is) and on a node of the converted list.   *)
(***************************************************************************)
BogusWidget == Str(<<"B", "o", "g", "u", "s", "W", "i", "d", "g", "e", "t">>)
HeaderType == Str(<<"H", "e", "a", "d", "e", "r">>)
HEADERType == Str(<<"H", "E", "A", "D", "E", "R">>)
Ghost == Str(<<"g", "h", "o", "s", "t">>)
Red == Str(<<"#", "F", "0", "0">>)

\* the theme of ThemeCtx: its default {} and one with the two colours read
NoTheme == [text |-> Undefined, primary |-> Undefined]
AmbientTheme ==
    [text |-> Str(<<"#", "0", "F", "1", "7", "2", "A">>),
     primary |-> Str(<<"#", "0", "D", "9", "4", "8", "8">>)]
Themes == {NoTheme, AmbientTheme}

\* headers, buttons and cards with and without colours of their own
ThemedNodes ==
    {Node(Id("h"), t, [EmptyProps EXCEPT !.color = c, !.bg = b, !.variant = v, !.text = Home],
          NoList) :
        t \in {HeaderType, HEADERType, Str(Button), Card},
        c \in {Undefined, Red}, b \in {Undefined, Red},
        v \in {Undefined, Null, Str(primary), Ghost}}

\* nodes of an unknown type, or of none, over the sources of children; among
\* the children an unknown node with children of its own, a header, a form
\* and an entry that is no object
InnerUnknown == Node(Id("v"), BogusWidget, EmptyProps, Arr(<<KidC>>))
HeaderKid == Node(Id("t"), HeaderType, EmptyProps, NoList)
UnknownNodes ==
    {Node(Id("w"), t, [EmptyProps EXCEPT !.items = items], children) :
        t \in {BogusWidget, Undefined},
        items \in {NoList, Arr(<<KidB>>)},
        children \in {NoList, Arr(<<KidA, InnerUnknown, HeaderKid>>),
                      Arr(<<LoginForm>>), Arr(<<NoObject, KidA>>)}}

RenderLists ==
    ComponentLists \cup {Arr(<<n>>) : n \in ThemedNodes \cup UnknownNodes}

InitRender ==
    /\ heap = <<>>
    /\ snaps = <<>>
    /\ call = NoCall
    /\ ensures = 0
    /\ app = InitialApp
    /\ \E xs \in RenderLists, theme \in Themes :
            norm = [NoNorm EXCEPT !.xs = xs, !.theme = theme]

\* <ComponentRendererLite node={node} /> for a node of the list
Dispatch ==
    \E i \in 1..Len(norm.xs.e) :
        Called("ComponentRendererLite", norm.xs.e[i], Render(norm.xs.e[i], norm.theme))

\* the same for a node of the list convertBackendToFrontend returns
DispatchConverted ==
    /\ Converted(norm.xs) # TypeError
    /\ \E i \in 1..Len(Converted(norm.xs).e) :
          Called("ComponentRendererLite", Converted(norm.xs).e[i],
                 Render(Converted(norm.xs).e[i], norm.theme))

NextRender == Dispatch \/ DispatchConverted

SpecRender == InitRender /\ [][NextRender]_vars

(***************************************************************************)
(* App, App.jsx:10-125 and :146-255.  A step is a user's action on what    *)
(* the last render shows, or the completion of a request.  sent is the    *)
(* prompt of the generation request in flight, layout the prompt the       *)
(* layout shown was generated from.                                        *)
(***************************************************************************)
\* constants/presetPrompts.js:3-87, ids of presets; getPresetById finds each
Presets == {"auth-modern", "ecommerce-shop"}

AppStep(next) ==
    /\ app' = next
    /\ UNCHANGED <<heap, snaps, call, ensures, norm>>

\* App.jsx:167-178, the two mode buttons: never disabled
SwitchMode ==
    \E m \in {"manual", "preset"} : AppStep([app EXCEPT !.inputMode = m])

\* App.jsx:186-193, the textarea of the manual mode
EditPrompt ==
    /\ app.inputMode = "manual"
    /\ ~(app.loading \/ app.enhancing)
    /\ \E p \in {EmptyPrompt, Prompt("typed")} : AppStep([app EXCEPT !.prompt = p])

\* App.jsx:117-123 handlePresetSelect, called by the preset selector of the
\* preset mode (App.jsx:241-244), which is given neither loading nor enhancing
SelectPreset ==
    /\ app.inputMode = "preset"
    /\ \E id \in Presets :
          AppStep([app EXCEPT !.selectedPreset = id, !.prompt = PresetPrompt(id)])

\* App.jsx:203-207 the Enhance button, :25-29 enhancePrompt up to the fetch
ClickEnhance ==
    /\ app.inputMode = "manual"
    /\ ~(app.enhancing \/ app.loading \/ app.prompt = EmptyPrompt)
    /\ AppStep([app EXCEPT !.enhancing = TRUE, !.error = "null"])

\* App.jsx:31-56, the refine request completes: the prompt is refined, or
\* is found detailed enough, or the request fails
EnhanceDone ==
    /\ app.enhancing
    /\ \/ AppStep([app EXCEPT !.enhancedPrompt = Prompt("refined"),
                              !.prompt = Prompt("refined"),
                              !.enhancing = FALSE])
       \/ AppStep([app EXCEPT !.error = "no changes", !.enhancing = FALSE])
       \/ AppStep([app EXCEPT !.error = "enhance failed", !.enhancing = FALSE])

\* the Generate button: App.jsx:219-223 in the manual mode, :246-250 in the
\* preset mode; :59-77 generate up to the fetch
ClickGenerate ==
    /\ IF app.inputMode = "manual" THEN ~(app.loading \/ app.enhancing)
       ELSE ~(app.loading \/ app.selectedPreset = NoPreset)
    /\ LET finalPrompt ==
              IF app.inputMode = "preset" /\ app.selectedPreset # NoPreset
              THEN PresetPrompt(app.selectedPreset) ELSE app.prompt
       IN  IF finalPrompt = EmptyPrompt
           THEN AppStep([app EXCEPT !.error = "no prompt"])
           ELSE AppStep([app EXCEPT !.loading = TRUE, !.error = "null",
                                    !.sent = finalPrompt])

\* App.jsx:79-113, the generation request completes or fails
GenerateDone ==
    /\ app.loading
    /\ \/ AppStep([app EXCEPT !.layout = app.sent, !.loading = FALSE,
                              !.sent = NoPrompt])
       \/ AppStep([app EXCEPT !.error = "generate failed", !.loading = FALSE,
                              !.sent = NoPrompt])

InitApp ==
    /\ heap = <<>>
    /\ snaps = <<>>
    /\ call = NoCall
    /\ ensures = 0
    /\ norm = NoNorm
    /\ app = InitialApp

NextApp ==
    SwitchMode \/ EditPrompt \/ SelectPreset \/ ClickEnhance \/ EnhanceDone
        \/ ClickGenerate \/ GenerateDone

SpecApp == InitApp /\ [][NextApp]_vars

(***************************************************************************)
(* What the claims speak of.                                               *)
(***************************************************************************)
\* the last call was a path mutation
Mutated == call.op \in {"set", "delete"}

\* structural equality of the document returned and the document passed in
ResultEqualsInput == ValueOf(heap, call.res) = ValueOf(heap, call.src)

\* the object a sequence of indices addresses in document doc, by the rule of
\* spec 4.3: the first index selects the page, the second the section, every
\* later one an element of the first present of components, props.items,
\* props.children of the object reached so far; NullRef when a collection is
\* missing or an index is out of range
FirstPresent(o) ==
    IF o.components.k # "undefined" THEN o.components
    ELSE IF o.props.items.k # "undefined" THEN o.props.items
    ELSE o.props.children
RECURSIVE Addressed(_, _, _)
Addressed(h, doc, es) ==
    IF es = <<>> THEN doc
    ELSE LET above == Addressed(h, doc, SubSeq(es, 1, Len(es) - 1))
             coll == IF Len(es) = 1 THEN h[above].pages
                     ELSE IF Len(es) = 2 THEN h[above].sections
                     ELSE FirstPresent(h[above])
             idx == es[Len(es)]
         IN  IF above = NullRef THEN NullRef
             ELSE IF coll.k = "array" /\ idx >= 0 /\ idx < Len(coll.e)
             THEN coll.e[idx + 1] ELSE NullRef

\* the node at a position of the canonical tree: page, section, component,
\* then the top-level children list at every further level
RECURSIVE CanonicalAt(_, _, _)
CanonicalAt(h, doc, es) ==
    IF es = <<>> THEN doc
    ELSE LET above == CanonicalAt(h, doc, SubSeq(es, 1, Len(es) - 1))
             coll == IF Len(es) = 1 THEN h[above].pages
                     ELSE IF Len(es) = 2 THEN h[above].sections
                     ELSE IF Len(es) = 3 THEN h[above].components
                     ELSE h[above].children
             idx == es[Len(es)]
         IN  IF above = NullRef THEN NullRef
             ELSE IF coll.k = "array" /\ idx >= 0 /\ idx < Len(coll.e)
             THEN coll.e[idx + 1] ELSE NullRef

\* the number of sections of every page of a document, page by page
PageShape(h, doc) ==
    [p \in 1..Len(h[doc].pages.e) |-> Len(h[h[doc].pages.e[p]].sections.e)]

(***************************************************************************)
(* C1.  Path round-trip: after setNodeByPath(D, P, N) with a path P that   *)
(* resolves in D, lookupByPath(result, P).node is N itself.                *)
(***************************************************************************)
C1_PathRoundTrip ==
    (call.op = "set" /\ call.resolved)
        => lookupByPath(heap, call.res, call.path).node = call.newNode

\* a set at a nested position (path of length 4) that resolved
C1_Witness == call.op = "set" /\ call.resolved /\ Len(call.path.e) = 4

(***************************************************************************)
(* C2.  setNodeByPath and deleteNodeByPath never modify a document they    *)
(* are given: across every such call, every document obtained so far keeps *)
(* its value.                                                              *)
(***************************************************************************)
C2_SnapshotsKeepTheirValue ==
    [][call'.op \in {"set", "delete"}
         => \A i \in 1..Len(snaps) : ValueOf(heap', snaps[i]) = ValueOf(heap, snaps[i])]_vars

\* a second mutation, applied to the result of the first, that changed something
C2_Witness ==
    /\ Mutated
    /\ Len(snaps) = 3
    /\ call.src = snaps[2]
    /\ ~ResultEqualsInput

(***************************************************************************)
(* C3.  deleteNodeByPath removes exactly the addressed node: for a path    *)
(* that resolves in D, the result equals D with the element at the last    *)
(* index spliced out of the collection that owns the addressed node.       *)
(***************************************************************************)
C3_DeleteRemovesAddressed ==
    (call.op = "delete" /\ call.resolved) =>
        LET at == lookupByPath(heap, call.src, call.path)
            removed == ListPut(heap, at.listRef,
                               Splice1(ListAt(heap, at.listRef).e, at.index))
        IN  ValueOf(heap, call.res) = ValueOf(removed, call.src)

(***************************************************************************)
(* C4.  deleteNodeByPath with a path that does not resolve in D returns a  *)
(* document equal to D.                                                    *)
(***************************************************************************)
C4_DeleteUnresolvedKeepsAll ==
    (call.op = "delete" /\ ~call.resolved) => ResultEqualsInput

(***************************************************************************)
(* C5.  Invalid-path safety: deleteNodeByPath with a path of length 0, 1   *)
(* or 2, or a path that is no array, returns a document equal to D.        *)
(***************************************************************************)
C5_DeleteShortPathKeepsAll ==
    (call.op = "delete" /\ (~call.path.arr \/ Len(call.path.e) < 3))
        => ResultEqualsInput

(***************************************************************************)
(* C6.  Every node of a canonical document is addressable: in a document   *)
(* whose components convertBackendToFrontend produced, the positional path *)
(* of every node, at any depth, resolves with lookupByPath to that node.   *)
(***************************************************************************)
C6_CanonicalNodesAddressable ==
    \A i \in 1..Len(snaps) :
        ValueOf(heap, snaps[i]) = DocCanonical =>
            \A p \in Paths :
                (p.arr /\ Len(p.e) >= 3 /\ CanonicalAt(heap, snaps[i], p.e) # NullRef)
                    => lookupByPath(heap, snaps[i], p).node
                            = CanonicalAt(heap, snaps[i], p.e)

(***************************************************************************)
(* C7.  lookupByPath fails closed: a path that is no array, has fewer than *)
(* 3 elements, or runs into a missing page, section or collection or an    *)
(* index out of range gives { node: null } and nothing else; any other     *)
(* path gives the node with owningCollection[index] = node and index the   *)
(* last element of the path.                                               *)
(***************************************************************************)
C7_LookupFailsClosed ==
    \A i \in 1..Len(snaps) : \A p \in Paths :
        LET r == lookupByPath(heap, snaps[i], p)
        IN  IF p.arr /\ Len(p.e) >= 3 /\ Addressed(heap, snaps[i], p.e) # NullRef
            THEN /\ DOMAIN r = {"parent", "listRef", "node", "index"}
                 /\ r.node = Addressed(heap, snaps[i], p.e)
                 /\ r.index = p.e[Len(p.e)]
                 /\ ArrayGet(ListAt(heap, r.listRef), r.index) = r.node
                 /\ r.parent = Addressed(heap, snaps[i], SubSeq(p.e, 1, Len(p.e) - 1))
            ELSE r = [node |-> NullRef]

\* a document in which a nested path resolves, a path into a collection that
\* is no array fails, and a path into a missing section fails
C7_Witness ==
    \E i \in 1..Len(snaps) :
        /\ lookupByPath(heap, snaps[i], PathOf(<<0, 0, 0, 1>>)).node # NullRef
        /\ lookupByPath(heap, snaps[i], PathOf(<<0, 0, 1, 0>>)).node = NullRef
        /\ lookupByPath(heap, snaps[i], PathOf(<<0, 1, 0>>)).node = NullRef

(***************************************************************************)
(* C8.  No cross-version aliasing: the document a path mutation returns    *)
(* shares no object with the document it was given, so a later change made *)
(* in place to the returned document leaves the given document as it was.  *)
(***************************************************************************)
C8_ResultSharesNothing ==
    [][(Mutated /\ call'.op = "ensure" /\ call'.src = call.res /\ call.res # call.src)
         => ValueOf(heap', call.src) = ValueOf(heap, call.src)]_vars

(***************************************************************************)
(* C9.  setNodeByPath with a path that does not resolve in D returns a     *)
(* document structurally equal to D.                                       *)
(***************************************************************************)
C9_SetUnresolvedKeepsAll ==
    (call.op = "set" /\ ~call.resolved) => ResultEqualsInput

(***************************************************************************)
(* C10.  Pages and sections cannot be removed through path mutation: every *)
(* document obtained has as many pages, and in each page as many sections, *)
(* as the initial document.                                                *)
(***************************************************************************)
C10_PagesAndSectionsStay ==
    \A i \in 1..Len(snaps) : PageShape(heap, snaps[i]) = PageShape(heap, snaps[1])

\* two mutations in a row, the second one removing something, in a document
\* with two sections
C10_Witness ==
    /\ Mutated
    /\ Len(snaps) = 3
    /\ call.op = "delete"
    /\ ~ResultEqualsInput
    /\ PageShape(heap, call.res) = <<2>>

(***************************************************************************)
(* C11.  Normalization is idempotent: ensureLayoutShape called on a        *)
(* document it returned returns that document unchanged.                   *)
(***************************************************************************)
C11_EnsureShapeIdempotent ==
    [][(norm.op = "ensureLayoutShape" /\ norm'.op = "ensureLayoutShape"
            /\ norm'.arg = norm.out)
         => norm'.out = norm.out]_vars

\* the components of page 0, section 0 of a document
FirstSectionComponents(doc) == doc.pages.e[1].sections.e[1].components

(***************************************************************************)
(* C12.  Shape equivalence: for every screen name A and the component list *)
(* Xs drawn, the legacy input {screens:[{name:A, components:Xs}]} and the  *)
(* paged input {pages:[{name:A, sections:[{components:Xs}]}]} give, after  *)
(* ensureLayoutShape and then convertBackendToFrontend on the components   *)
(* of page 0, section 0, the same component list.                          *)
(***************************************************************************)
C12_ShapesConverge ==
    norm.calls > 0 =>
        \A A \in ScreenNames :
            LET legacy == ensureLayoutShape(Legacy(A, norm.xs))
                paged == ensureLayoutShape(Paged(A, norm.xs))
            IN  /\ legacy.k = "object" /\ paged.k = "object"
                /\ Len(legacy.pages.e) = 1 /\ Len(paged.pages.e) = 1
                /\ Converted(FirstSectionComponents(legacy))
                        = Converted(FirstSectionComponents(paged))

\* ensureLayoutShape has returned the pages of a legacy input whose screen
\* holds a form with fields, and conversion hoists them
C12_Witness ==
    /\ norm.op = "ensureLayoutShape"
    /\ \E A \in ScreenNames : norm.arg = Legacy(A, norm.xs)
    /\ norm.out.k = "object"
    /\ FirstSectionComponents(norm.out) = norm.xs
    /\ Converted(norm.xs).k = "array"
    /\ \E i \in 1..Len(Converted(norm.xs).e) : Converted(norm.xs).e[i].children.e # <<>>

\* the last call was convertBackendToFrontend and it returned an array
ConvertReturned == norm.op = "convertBackendToFrontend" /\ norm.out.k = "array"

\* type equals "form" case-insensitively
IsFormType(type) == type.t = "string" /\ ToLowerCase(type.s) = form

\* the type emitted for a descriptor's type: the type given (or the alias it
\* stands for), the default when none is given
EmittedTypeOk(given, emitted, default) ==
    IF Truthy(given) THEN emitted \in {given, Str(PasswordInput)}
    ELSE emitted = Str(default)

\* the children emitted for the form in are its fields, then its buttons
FormHoisted(in, out) ==
    LET fields == IF in.props.fields.k = "array" THEN in.props.fields.e ELSE <<>>
        buttons == IF in.props.buttons.k = "array" THEN in.props.buttons.e ELSE <<>>
        kids == out.children.e
    IN  /\ out.children.k = "array"
        /\ Len(kids) = Len(fields) + Len(buttons)
        /\ \A i \in 1..Len(fields) :
              /\ kids[i].id = OrElse(fields[i].id, Str(FieldPrefix \o DecimalString(i - 1)))
              /\ EmittedTypeOk(fields[i].type, kids[i].type, TextInput)
        /\ \A j \in 1..Len(buttons) :
              LET kid == kids[Len(fields) + j]
              IN  /\ kid.id = OrElse(buttons[j].id, Str(BtnPrefix \o DecimalString(j - 1)))
                  /\ EmittedTypeOk(buttons[j].type, kid.type, Button)
        /\ out.props.fields = NoList
        /\ out.props.buttons = NoList

\* every form among the nodes ins, at any depth, is hoisted in outs
RECURSIVE FormsHoisted(_, _)
FormsHoisted(ins, outs) ==
    /\ Len(outs) = Len(ins)
    /\ \A c \in 1..Len(ins) :
          /\ IsFormType(ins[c].type) => FormHoisted(ins[c], outs[c])
          /\ FormsHoisted(ChildSource(ins[c]).e, outs[c].children.e)

(***************************************************************************)
(* C13.  Form hoisting: for every node whose type is "form" in any letter  *)
(* case, convertBackendToFrontend emits as children one node per entry of  *)
(* props.fields in order (type defaulting to "TextInput", a missing id set *)
(* to field-{i}), then one per entry of props.buttons in order (type       *)
(* defaulting to "Button", a missing id set to btn-{i}), and props without *)
(* fields and buttons.                                                     *)
(***************************************************************************)
C13_FormsAreHoisted ==
    ConvertReturned => FormsHoisted(norm.arg.e, norm.out.e)

\* a form in upper case with three fields and two buttons, some without id
\* or type, has been converted
C13_Witness ==
    /\ ConvertReturned
    /\ \E c \in 1..Len(norm.arg.e) :
          /\ norm.arg.e[c].type = FORMType
          /\ norm.arg.e[c].props.fields = Arr(<<FieldPassword, FieldPassWordInput, FieldUntyped>>)
          /\ Len(norm.out.e[c].children.e) = 5

\* the pattern /password/i matches the type
MatchesPassword(type) == type.t = "string" /\ Contains(ToLowerCase(type.s), password)

\* the type is one of the two aliases of "PasswordInput"
IsPasswordAlias(type) ==
    type.t = "string" /\ ToLowerCase(type.s) \in {password, passwordinput}

\* the secure prop a descriptor carries itself
OwnSecure(d) == IF d.props.present THEN d.props.secure ELSE Undefined

\* the children emitted for the form in carry secure as the claim states
FormSecured(in, out) ==
    LET fields == IF in.props.fields.k = "array" THEN in.props.fields.e ELSE <<>>
        buttons == IF in.props.buttons.k = "array" THEN in.props.buttons.e ELSE <<>>
        kids == out.children.e
    IN  /\ Len(kids) = Len(fields) + Len(buttons)
        /\ \A i \in 1..Len(fields) :
              /\ kids[i].props.secure =
                    IF MatchesPassword(fields[i].type) THEN True ELSE OwnSecure(fields[i])
              /\ IsPasswordAlias(fields[i].type) => kids[i].type = Str(PasswordInput)
        /\ \A j \in 1..Len(buttons) :
              kids[Len(fields) + j].props.secure = OwnSecure(buttons[j])

\* every form among the nodes ins, at any depth, has its children so marked
RECURSIVE FormsSecured(_, _)
FormsSecured(ins, outs) ==
    /\ Len(outs) = Len(ins)
    /\ \A c \in 1..Len(ins) :
          /\ IsFormType(ins[c].type) => FormSecured(ins[c], outs[c])
          /\ FormsSecured(ChildSource(ins[c]).e, outs[c].children.e)

(***************************************************************************)
(* C14.  Password fields: a hoisted form field gets secure: true injected  *)
(* exactly when its original type matches the pattern "password" in any    *)
(* letter case (otherwise its secure prop is the one it carried, if any);  *)
(* a field typed "password" or "passwordinput" in any letter case is       *)
(* emitted with type "PasswordInput"; a hoisted button gets no secure      *)
(* injected, whatever its type.                                            *)
(***************************************************************************)
C14_PasswordFieldsSecure ==
    ConvertReturned => FormsSecured(norm.arg.e, norm.out.e)

\* a form has been converted whose field "NewPassword" is secure and keeps
\* its type, and a form whose button "Password" is not secure
C14_Witness ==
    /\ ConvertReturned
    /\ \E c \in 1..Len(norm.arg.e) :
          /\ IsFormType(norm.arg.e[c].type)
          /\ \/ /\ norm.arg.e[c].props.fields = Arr(<<FieldSecureText, FieldNewPassword>>)
                /\ norm.out.e[c].children.e[2].props.secure = True
                /\ norm.out.e[c].children.e[2].type = FieldNewPassword.type
                /\ ~MatchesPassword(FieldSecureText.type)
             \/ /\ norm.arg.e[c].props.buttons = Arr(<<ButtonTyped, ButtonPassword>>)
                /\ norm.out.e[c].children.e[5].type = Str(PasswordInput)
                /\ norm.out.e[c].children.e[5].props.secure = Undefined
                /\ norm.out.e[c].children.e[2].props.secure = True

\* no node of the list nodes, at any depth, has a structural key in its props
RECURSIVE NoStructuralKeys(_)
NoStructuralKeys(nodes) ==
    \A c \in 1..Len(nodes) :
        /\ nodes[c].props.children = NoList
        /\ nodes[c].props.items = NoList
        /\ nodes[c].props.fields = NoList
        /\ nodes[c].props.buttons = NoList
        /\ nodes[c].children.k = "array" => NoStructuralKeys(nodes[c].children.e)

(***************************************************************************)
(* C15.  Structural keys never survive conversion: every node at every     *)
(* depth of the output of convertBackendToFrontend has props without the   *)
(* keys children, items, fields and buttons, whatever its type.            *)
(***************************************************************************)
C15_NoStructuralKeys ==
    ConvertReturned => NoStructuralKeys(norm.out.e)

\* every node of the list nodes, at every depth, has a non-empty id
RECURSIVE AllHaveIds(_)
AllHaveIds(nodes) ==
    \A c \in 1..Len(nodes) :
        /\ Truthy(nodes[c].id)
        /\ nodes[c].children.k = "array" => AllHaveIds(nodes[c].children.e)

\* the last call was normalizeBackendLayout and it returned a document
NormalizeReturned == norm.op = "normalizeBackendLayout" /\ norm.out.k = "object"

(***************************************************************************)
(* C16.  Ids are present after conversion: every node at every depth of    *)
(* the component lists in the pages returned by normalizeBackendLayout     *)
(* (top-level components, nested children and hoisted fields and buttons)  *)
(* has a non-empty id.                                                     *)
(***************************************************************************)
C16_IdsPresent ==
    NormalizeReturned =>
        \A p \in 1..Len(norm.out.pages.e) :
            AllHaveIds(norm.out.pages.e[p].sections.e[1].components.e)

\* a list that is an array with at least one entry
NonEmptyList(l) == l.k = "array" /\ l.e # <<>>

\* the props of a node, empty when it has none
PropsOf(node) == IF node.props.present THEN node.props ELSE EmptyProps

\* the first non-empty source of children of a node, none when all are empty
FirstNonEmptySource(node) ==
    IF NonEmptyList(PropsOf(node).children) THEN PropsOf(node).children
    ELSE IF NonEmptyList(PropsOf(node).items) THEN PropsOf(node).items
    ELSE IF NonEmptyList(node.children) THEN node.children
    ELSE Arr(<<>>)

\* the first source of children of a node that is an array, empty or not
FirstArraySource(node) ==
    IF PropsOf(node).children.k = "array" THEN PropsOf(node).children
    ELSE IF PropsOf(node).items.k = "array" THEN PropsOf(node).items
    ELSE IF node.children.k = "array" THEN node.children
    ELSE Arr(<<>>)

\* the children of every non-form node of ins, at any depth under non-form
\* nodes, are the conversion of its first non-empty source
RECURSIVE FromFirstNonEmpty(_, _)
FromFirstNonEmpty(ins, outs) ==
    /\ Len(outs) = Len(ins)
    /\ \A c \in 1..Len(ins) :
          ~IsFormType(ins[c].type) =>
              /\ outs[c].children = Arr(convertBackendToFrontend(FirstNonEmptySource(ins[c])))
              /\ FromFirstNonEmpty(FirstNonEmptySource(ins[c]).e, outs[c].children.e)

\* the same with the first source that is an array
RECURSIVE FromFirstArray(_, _)
FromFirstArray(ins, outs) ==
    /\ Len(outs) = Len(ins)
    /\ \A c \in 1..Len(ins) :
          ~IsFormType(ins[c].type) =>
              /\ outs[c].children = Arr(convertBackendToFrontend(FirstArraySource(ins[c])))
              /\ FromFirstArray(FirstArraySource(ins[c]).e, outs[c].children.e)

(***************************************************************************)
(* C17.  Children-source precedence as stated: the children emitted for a  *)
(* non-form node are the conversion of exactly one source, the first       *)
(* non-empty one in the order props.children, props.items, children.       *)
(***************************************************************************)
C17_FirstNonEmptySourceWins ==
    ConvertReturned => FromFirstNonEmpty(norm.arg.e, norm.out.e)

(***************************************************************************)
(* C17, amended.  The children emitted for a non-form node are the         *)
(* conversion of exactly one source: props.children when it is an array,   *)
(* even an empty one; otherwise props.items when it is an array;           *)
(* otherwise the node's own children; otherwise none.                      *)
(***************************************************************************)
C17_FirstArraySourceWins ==
    ConvertReturned => FromFirstArray(norm.arg.e, norm.out.e)

\* a node with three populated sources has been converted and its children
\* are those of props.children alone
C17_Witness ==
    /\ ConvertReturned
    /\ \E c \in 1..Len(norm.arg.e) :
          /\ ~IsFormType(norm.arg.e[c].type)
          /\ PropsOf(norm.arg.e[c]).children = Arr(<<KidA>>)
          /\ PropsOf(norm.arg.e[c]).items = Arr(<<KidB>>)
          /\ norm.arg.e[c].children = Arr(<<KidC>>)
          /\ Len(norm.out.e[c].children.e) = 1
          /\ norm.out.e[c].children.e[1].id = KidA.id

\* a node with an empty props.children and a populated props.items has
\* been converted and has no children
C17_EmptyChildrenHideItems ==
    /\ ConvertReturned
    /\ \E c \in 1..Len(norm.arg.e) :
          /\ ~IsFormType(norm.arg.e[c].type)
          /\ PropsOf(norm.arg.e[c]).children = Arr(<<>>)
          /\ PropsOf(norm.arg.e[c]).items = Arr(<<KidB>>)
          /\ norm.out.e[c].children = Arr(<<>>)

\* every node of the list nodes, at every depth, whose id is the id of an
\* entry of the catalog compList is that entry, converted
RECURSIVE CatalogWins(_, _)
CatalogWins(nodes, compList) ==
    \A c \in 1..Len(nodes) :
        /\ (Truthy(nodes[c].id) /\ CatalogEntry(compList, nodes[c].id) # NoObject) =>
              nodes[c] = convertBackendToFrontend(
                            Arr(<<CatalogEntry(compList, nodes[c].id)>>))[1]
        /\ nodes[c].children.k = "array" => CatalogWins(nodes[c].children.e, compList)

(***************************************************************************)
(* C18.  Catalog reference resolution: when a catalog is supplied in       *)
(* intermediate.components, every node at every depth whose id is the id   *)
(* of a catalog entry appears in the pages returned by                     *)
(* normalizeBackendLayout as that catalog entry, not as its inline         *)
(* definition.                                                             *)
(***************************************************************************)
C18_CatalogWins ==
    (NormalizeReturned /\ norm.intermediate.components.k = "array") =>
        \A p \in 1..Len(norm.out.pages.e) :
            CatalogWins(norm.out.pages.e[p].sections.e[1].components.e,
                        norm.intermediate.components.e)

(***************************************************************************)
(* C19.  Totality: for every object-shaped input, however malformed,       *)
(* ensureLayoutShape, normalizeBackendLayout and convertBackendToFrontend  *)
(* return a value and never throw.                                         *)
(***************************************************************************)
C19_NeverThrows == norm.op # "none" => norm.out # TypeError

\* each of the three functions alone
C19_EnsureShapeNeverThrows == norm.op = "ensureLayoutShape" => norm.out # TypeError
C19_NormalizeNeverThrows == norm.op = "normalizeBackendLayout" => norm.out # TypeError
C19_ConvertNeverThrows == norm.op = "convertBackendToFrontend" => norm.out # TypeError

\* a raw value that is a mapping
IsMapping(v) == v.k = "object"

\* doc is a well-formed LayoutDocument
WellFormed(doc) ==
    /\ doc.k = "object"
    /\ doc.pages.k = "array"
    /\ \A p \in 1..Len(doc.pages.e) :
          /\ doc.pages.e[p].sections.k = "array"
          /\ \A s \in 1..Len(doc.pages.e[p].sections.e) :
                doc.pages.e[p].sections.e[s].components.k = "array"
    /\ IsMapping(doc.theme)
    /\ IsMapping(doc.tokens)

(***************************************************************************)
(* C20.  Well-formed result: ensureLayoutShape returns null exactly when   *)
(* its input is null or undefined; for every other input the result is a   *)
(* document whose pages is an array in which every page has a sections     *)
(* array and every section a components array, and whose theme and tokens  *)
(* are mappings.                                                           *)
(***************************************************************************)
C20_WellFormedResult ==
    norm.op = "ensureLayoutShape" =>
        IF norm.arg.k \in {"undefined", "null"} THEN norm.out = NullRaw
        ELSE WellFormed(norm.out)

\* the same for the calls that return
C20_WellFormedWhenReturned ==
    (norm.op = "ensureLayoutShape" /\ norm.out # TypeError) =>
        IF norm.arg.k \in {"undefined", "null"} THEN norm.out = NullRaw
        ELSE WellFormed(norm.out)

\* the document ensureLayoutShape works on: what is under the layout key
\* when that is an object, the input itself otherwise
Unwrapped(raw) == IF raw.k = "object" /\ raw.layout.k = "object" THEN raw.layout ELSE raw

\* the pages of out are the screens, one page per screen in order
MigratedFrom(screens, out) ==
    /\ out.k = "object"
    /\ out.pages.k = "array"
    /\ Len(out.pages.e) = Len(screens)
    /\ \A i \in 1..Len(screens) :
          LET page == out.pages.e[i]
          IN  /\ Truthy(screens[i].id) => page.id = screens[i].id
              /\ page.sections.k = "array"
              /\ Len(page.sections.e) = 1
              /\ page.sections.e[1].id = MainSection
              /\ page.sections.e[1].components =
                    IF screens[i].components.k = "undefined" THEN Arr(<<>>)
                    ELSE screens[i].components

\* out, converted, is one page "Login" with one section holding one Form
\* whose children are the field, then the button
LoginMigrated(out) ==
    /\ out.k = "object"
    /\ Len(out.pages.e) = 1
    /\ out.pages.e[1].id = Login
    /\ Len(out.pages.e[1].sections.e) = 1
    /\ LET nodes == Converted(out.pages.e[1].sections.e[1].components)
       IN  /\ nodes.k = "array"
           /\ Len(nodes.e) = 1
           /\ nodes.e[1].type = FormType
           /\ nodes.e[1].children.k = "array"
           /\ Len(nodes.e[1].children.e) = 2
           /\ nodes.e[1].children.e[1].type = Str(TextInput)
           /\ nodes.e[1].children.e[1].props.label = Email
           /\ nodes.e[1].children.e[2].type = Str(Button)
           /\ nodes.e[1].children.e[2].props.text = SignIn

(***************************************************************************)
(* C21.  Legacy migration: for every input with a screens list and no      *)
(* usable (array) pages, ensureLayoutShape yields one page per screen, in  *)
(* order, with the screen's name, each with exactly one section "Main      *)
(* Section" holding the screen's components; and the screen "Login" with   *)
(* one Form of one field and one button, converted, is one page "Login",   *)
(* one section, one Form whose children are that field, then that button.  *)
(***************************************************************************)
C21_LegacyMigration ==
    norm.op = "ensureLayoutShape" =>
        LET raw == Unwrapped(norm.arg)
        IN  /\ (raw.k = "object" /\ raw.screens.k = "array" /\ raw.pages.k # "array")
                  => MigratedFrom(raw.screens.e, norm.out)
            /\ norm.arg = Legacy(Login, Arr(<<LoginForm>>)) => LoginMigrated(norm.out)

\* the same for inputs that have no pages key at all
C21_MigrationWithoutPagesKey ==
    norm.op = "ensureLayoutShape" =>
        LET raw == Unwrapped(norm.arg)
        IN  /\ (raw.k = "object" /\ raw.screens.k = "array" /\ raw.pages.k = "undefined")
                  => MigratedFrom(raw.screens.e, norm.out)
            /\ norm.arg = Legacy(Login, Arr(<<LoginForm>>)) => LoginMigrated(norm.out)

\* the login screen has been migrated
C21_LoginReached ==
    /\ norm.op = "ensureLayoutShape"
    /\ norm.arg = Legacy(Login, Arr(<<LoginForm>>))
    /\ LoginMigrated(norm.out)

\* the last call was ensureLayoutShape on an object and it returned
EnsureShapeReturned ==
    /\ norm.op = "ensureLayoutShape"
    /\ norm.arg.k = "object"
    /\ norm.out.k = "object"

\* the theme the tokens of raw carry, Absent when they carry none
CarriedTheme(raw) == IF raw.tokens.k = "object" THEN raw.tokens.m.theme ELSE Absent

(***************************************************************************)
(* C22.  Theme/tokens fallback as stated: whenever the input has no theme, *)
(* the result's theme is the fixed fallback palette, and whenever it has   *)
(* no tokens, the result's tokens are the fixed fallback spacing; a        *)
(* present theme or tokens value is returned unchanged.                    *)
(***************************************************************************)
C22_FallbackWhenMissing ==
    EnsureShapeReturned =>
        LET raw == Unwrapped(norm.arg)
        IN  /\ norm.out.theme = IF raw.theme = Absent THEN FallbackTheme ELSE raw.theme
            /\ norm.out.tokens = IF raw.tokens = Absent THEN FallbackTokens ELSE raw.tokens

(***************************************************************************)
(* C22, amended.  Whenever the input has no theme, the result's theme is   *)
(* the theme carried by the input's tokens if there is one, and the fixed  *)
(* fallback palette otherwise; whenever it has no tokens, the result's     *)
(* tokens are the fixed fallback spacing; a present theme or tokens value  *)
(* is returned unchanged.                                                  *)
(***************************************************************************)
C22_FallbackAfterTokensTheme ==
    EnsureShapeReturned =>
        LET raw == Unwrapped(norm.arg)
        IN  /\ norm.out.theme =
                  IF raw.theme # Absent THEN raw.theme
                  ELSE IF CarriedTheme(raw) # Absent THEN CarriedTheme(raw)
                  ELSE FallbackTheme
            /\ norm.out.tokens = IF raw.tokens = Absent THEN FallbackTokens ELSE raw.tokens

\* an input without theme whose tokens carry one has been normalized, and
\* the result's theme is the carried one, not the fallback palette
C22_Witness ==
    /\ EnsureShapeReturned
    /\ Unwrapped(norm.arg).theme = Absent
    /\ CarriedTheme(Unwrapped(norm.arg)) = TokensTheme
    /\ norm.out.theme = TokensTheme
    /\ norm.out.theme # FallbackTheme

\* an input without theme and tokens has got the palette and the spacing
C22_BothFallbacks ==
    /\ EnsureShapeReturned
    /\ Unwrapped(norm.arg).theme = Absent
    /\ Unwrapped(norm.arg).tokens = Absent
    /\ norm.out.theme = FallbackTheme
    /\ norm.out.tokens = Tokens(16, 20, Absent)

\* a step of ensurePositionAndSizeRecursive
EnsureStep == ensures' = ensures + 1

\* the addresses of the components of the document at address doc, at
\* every nesting depth
ComponentsOf(h, doc) == {a \in Reach(h, doc) : h[a].kind = "node"}

\* a value that is a number in the proper sense
Numeric(v) == v.t = "number"

\* the position value after is right for the value before
PositionCovered(before, after) ==
    /\ Numeric(after)
    /\ before.t = "undefined" => after.n \in JitterBase..(JitterBase + JitterSpan)
    /\ Numeric(before) => after = before

\* the size value after is right for the value before
SizeCovered(before, after) ==
    /\ Numeric(after)
    /\ Numeric(before) => after = before

(***************************************************************************)
(* C23.  Geometry coverage: after ensurePositionAndSizeRecursive(D) every  *)
(* component of D at every nesting depth (under props.items,               *)
(* props.children or the top-level children) has numeric props x, y,       *)
(* width and height; an x or y that was missing lies in 24..64, and every  *)
(* geometry value that was numeric already is unchanged.                   *)
(***************************************************************************)
C23_GeometryCovered ==
    [][EnsureStep =>
          \A a \in ComponentsOf(heap', call'.res) :
              /\ PositionCovered(heap[a].props.x, heap'[a].props.x)
              /\ PositionCovered(heap[a].props.y, heap'[a].props.y)
              /\ SizeCovered(heap[a].props.width, heap'[a].props.width)
              /\ SizeCovered(heap[a].props.height, heap'[a].props.height)]_vars

\* the positions alone, which no conversion of a width or height touches
C23_PositionsCovered ==
    [][EnsureStep =>
          \A a \in ComponentsOf(heap', call'.res) :
              /\ PositionCovered(heap[a].props.x, heap'[a].props.x)
              /\ PositionCovered(heap[a].props.y, heap'[a].props.y)]_vars

\* the components ensure reaches: those of the sections and, from a
\* component, those of props.items, or of props.children when there is no
\* props.items
RECURSIVE Visited(_, _)
Visited(h, as) ==
    UNION {LET p == h[as[i]].props
               kids == IF p.items.k # "undefined" THEN p.items ELSE p.children
           IN  {as[i]} \cup (IF kids.k = "array" THEN Visited(h, kids.e) ELSE {})
           : i \in 1..Len(as)}
VisitedOf(h, doc) ==
    UNION {Visited(h, h[s].components.e) :
              s \in {b \in Reach(h, doc) : h[b].kind = "section"}}

\* the positions of the components that are reached
C23_PositionsOfVisitedCovered ==
    [][EnsureStep =>
          \A a \in VisitedOf(heap', call'.res) :
              /\ PositionCovered(heap[a].props.x, heap'[a].props.x)
              /\ PositionCovered(heap[a].props.y, heap'[a].props.y)]_vars

\* typeof v is not "number"
NotANumber(v) == ~IsNumber(v)

(***************************************************************************)
(* C24.  Size defaults: for every component ensurePositionAndSizeRecursive *)
(* visits, a width that is missing or is no number becomes exactly 300,    *)
(* and a height that is missing or is no number becomes exactly 140.       *)
(***************************************************************************)
C24_SizeDefaults ==
    [][EnsureStep =>
          \A a \in VisitedOf(heap', call'.res) :
              /\ NotANumber(heap[a].props.width)
                    => heap'[a].props.width = Num(DefaultWidth)
              /\ NotANumber(heap[a].props.height)
                    => heap'[a].props.height = Num(DefaultHeight)]_vars

\* the same for a width and a height that are missing
C24_SizeDefaultsWhenMissing ==
    [][EnsureStep =>
          \A a \in VisitedOf(heap', call'.res) :
              /\ heap[a].props.width.t = "undefined"
                    => heap'[a].props.width = Num(DefaultWidth)
              /\ heap[a].props.height.t = "undefined"
                    => heap'[a].props.height = Num(DefaultHeight)]_vars

\* the last call was the dispatcher
Dispatched == norm.op = "ComponentRendererLite"

\* the key the dispatcher looks a type up with
KeyOf(type) == ToLowerCase(StringOf(OrElse(type, Str(<<>>))))

\* a node whose type, a string or none, is no key of the component map
IsUnknown(node) ==
    /\ node.kind = "node"
    /\ node.type.t \in {"string", "undefined"}
    /\ KeyOf(node.type) \notin ComponentKeys

\* the children of a node: the entries of its children source that are objects
ChildrenOf(node) == Objects(FirstArraySource(node).e)

\* there is a form in the tree under node, node included
RECURSIVE HasForm(_)
HasForm(node) ==
    \/ IsFormType(node.type)
    \/ \E i \in 1..Len(KidsOf(node)) : HasForm(KidsOf(node)[i])

\* what is rendered for a child shows the child's type
ShowsType(rendered, type) ==
    \/ rendered.k = "unknown" /\ rendered.tag = type
    \/ rendered.k = "element" /\ rendered.comp = KeyOf(type)

(***************************************************************************)
(* C25.  Unknown-type safety: for every node whose type is no key of the   *)
(* component map, ComponentRendererLite does not fail and renders a        *)
(* placeholder that shows the type and holds, in order, what the           *)
(* dispatcher renders for each of the node's children, so that every       *)
(* descendant of the unknown node is dispatched as it is on its own.       *)
(***************************************************************************)
C25_UnknownTypeSafe ==
    (Dispatched /\ IsUnknown(norm.arg)) =>
        /\ norm.out.k = "unknown"
        /\ norm.out.tag = norm.arg.type
        /\ Len(norm.out.kids) = Len(ChildrenOf(norm.arg))
        /\ \A i \in 1..Len(norm.out.kids) :
              norm.out.kids[i] = Render(ChildrenOf(norm.arg)[i], norm.theme)

\* the same for unknown nodes with no form under them
C25_UnknownTypeSafeWithoutForms ==
    (Dispatched /\ IsUnknown(norm.arg) /\ ~HasForm(norm.arg)) =>
        /\ norm.out.k = "unknown"
        /\ norm.out.tag = norm.arg.type
        /\ Len(norm.out.kids) = Len(ChildrenOf(norm.arg))
        /\ \A i \in 1..Len(norm.out.kids) :
              norm.out.kids[i] = Render(ChildrenOf(norm.arg)[i], norm.theme)

\* the children themselves, whatever is under them
C25_UnknownChildrenDispatched ==
    (Dispatched /\ IsUnknown(norm.arg)) =>
        /\ norm.out.k = "unknown"
        /\ norm.out.tag = norm.arg.type
        /\ Len(norm.out.kids) = Len(ChildrenOf(norm.arg))
        /\ \A i \in 1..Len(norm.out.kids) :
              ShowsType(norm.out.kids[i], ChildrenOf(norm.arg)[i].type)

\* props without the keys that hold nested nodes
NonStructural(p) ==
    [p EXCEPT !.children = NoList, !.items = NoList, !.fields = NoList,
              !.buttons = NoList]

\* the node is one convertBackendToFrontend returns for the list at hand
IsConverted(node) ==
    /\ Converted(norm.xs) # TypeError
    /\ \E i \in 1..Len(Converted(norm.xs).e) : Converted(norm.xs).e[i] = node

\* the props the claim lets the handler of a node with props own have
HandedFor(type, own, theme) ==
    IF KeyOf(type) = header /\ ~Truthy(own.color)
    THEN [own EXCEPT !.color = theme.text]
    ELSE IF /\ KeyOf(type) = button
            /\ ~Truthy(own.bg)
            /\ (own.variant \in {Undefined, Null} \/ own.variant = Str(primary))
    THEN [own EXCEPT !.bg = theme.primary, !.color = White]
    ELSE own

C26_GhostButtonUntouched ==
    /\ Dispatched
    /\ norm.out.k = "element"
    /\ norm.out.comp = button
    /\ PropsOf(norm.arg).variant = Ghost
    /\ PropsOf(norm.arg).bg = Undefined
    /\ norm.out.props = PropsOf(norm.arg)

\* the type of a node is a key of the component map
IsKnown(node) ==
    /\ node.kind = "node"
    /\ node.type.t = "string"
    /\ KeyOf(node.type) \in ComponentKeys

\* the handler's children are what the dispatcher renders for each element
\* of the node's children list, in order
PresentsChildren(node, rendered, theme) ==
    /\ rendered.k = "element"
    /\ Len(rendered.kids) = Len(node.children.e)
    /\ \A i \in 1..Len(rendered.kids) :
          rendered.kids[i] = Render(node.children.e[i], theme)

(***************************************************************************)
(* C29.  Dispatch presents the canonical children: for every node          *)
(* convertBackendToFrontend returns whose type is known to the dispatcher, *)
(* ComponentRendererLite dispatches each element of the node's children    *)
(* list, in order, as the handler's children; a converted Form's hoisted   *)
(* fields and buttons are each dispatched with their converted type and    *)
(* props.                                                                  *)
(***************************************************************************)
C29_CanonicalChildrenPresented ==
    (Dispatched /\ IsConverted(norm.arg) /\ IsKnown(norm.arg)) =>
        PresentsChildren(norm.arg, norm.out, norm.theme)

\* the same for the converted nodes with no form in them
C29_ChildrenPresentedWithoutForms ==
    (Dispatched /\ IsConverted(norm.arg) /\ IsKnown(norm.arg) /\ ~HasForm(norm.arg)) =>
        PresentsChildren(norm.arg, norm.out, norm.theme)

\* a converted Form with children has been dispatched and its handler has
\* no children
C29_ConvertedFormEmpty ==
    /\ Dispatched
    /\ IsConverted(norm.arg)
    /\ IsFormType(norm.arg.type)
    /\ Len(norm.arg.children.e) = 2
    /\ norm.out.k = "element"
    /\ norm.out.kids = <<>>

\* the raw document with its screens in the place of its pages
ScreensAsPages(raw) == [raw EXCEPT !.pages = raw.screens, !.screens = NoList]

(***************************************************************************)
(* C27.  normalizeBackendLayout accepts either raw.pages or raw.screens:   *)
(* when raw.pages is absent or empty and raw.screens is a non-empty list,  *)
(* the result has exactly one page per screen, in order, built from the    *)
(* screen's name and components as it is from a page's, not the single     *)
(* fallback page.                                                          *)
(***************************************************************************)
C27_ScreensAccepted ==
    NormalizeReturned =>
        LET raw == Unwrapped(norm.arg)
            expected == normalizeBackendLayout(ScreensAsPages(raw), norm.intermediate)
        IN  (/\ raw.k = "object"
             /\ (raw.pages.k = "undefined" \/ raw.pages = Arr(<<>>))
             /\ raw.screens.k = "array" /\ raw.screens.e # <<>>
             /\ expected # TypeError)
                => /\ Len(norm.out.pages.e) = Len(raw.screens.e)
                   /\ norm.out.pages = expected.pages

\* a document with a non-empty pages list of its own gets one page per page
C27_PagesAccepted ==
    NormalizeReturned =>
        LET raw == Unwrapped(norm.arg)
        IN  (raw.k = "object" /\ raw.pages.k = "array" /\ raw.pages.e # <<>>)
                => Len(norm.out.pages.e) = Len(raw.pages.e)

(***************************************************************************)
(* C28.  Conversion is idempotent: convertBackendToFrontend of a list it   *)
(* returned is that list; in particular a converted Form keeps its hoisted *)
(* children when it is converted again.                                    *)
(***************************************************************************)
C28_ConversionIdempotent ==
    ConvertReturned => Converted(norm.out) = norm.out

\* the same for the lists with no form in them
C28_IdempotentWithoutForms ==
    (ConvertReturned /\ \A i \in 1..Len(norm.arg.e) : ~HasForm(norm.arg.e[i]))
        => Converted(norm.out) = norm.out

(***************************************************************************)
(* C30.  In App a prompt-enhancement request and a generation request are  *)
(* never in flight at the same time: in every state reachable by the       *)
(* user's actions and the completions of requests, loading and enhancing   *)
(* are not both true.                                                      *)
(***************************************************************************)
C30_NeverBothInFlight == ~(app.loading /\ app.enhancing)

\* a completing enhancement never writes the prompt while a generation runs
C30_PromptKeptWhileGenerating ==
    [][(app.loading /\ app.enhancing /\ ~app'.enhancing) => app'.prompt = app.prompt]_vars

\* within the manual mode alone the two requests exclude each other
C30_ExclusiveInManualMode ==
    [][(app.inputMode = "manual" /\ app'.inputMode = "manual"
            /\ ~(app.loading /\ app.enhancing))
        => ~(app'.loading /\ app'.enhancing)]_vars

=============================================================================
